---------------------------- MODULE Spec2Model ----------------------------
(***************************************************************************)
(* ARM CoreSight trace decoding (debug.py): the TPIU deframer (TPIUCtx),   *)
(* the ITM/DWT packet parser (PktCtx), the console grouper (ConsoleCtx),   *)
(* the application-record reassembler (Instrumentation) and the two        *)
(* analyzers that drive them (TPIU.decode, ITMDWT.decode).                 *)
(*                                                                         *)
(* Python integers are unbounded and the parser builds pdata with | and    *)
(* <<, so an accumulated integer is modelled as the set of its set bit     *)
(* positions: x | y is a union, x << k a translation, x & mask an          *)
(* intersection.  Display strings are built character by character, as     *)
(* str.format builds them.                                                 *)
(***************************************************************************)
EXTENDS Integers, Sequences, FiniteSets, TLC

VARIABLES
    decode_style,   \* ITMDWT.decode_style setting
    port,           \* ITMDWT.port setting
    TPIU_stream,    \* ITMDWT.TPIU_stream setting (0 = bypass)
    TPIU_offset,    \* ITMDWT.TPIU_offset setting
    ctx,            \* ITMDWT.ctx : Null or a PktCtx
    tpiu,           \* ITMDWT.tpiu : Null or a TPIUCtx (Saleae style)
    tpiu_decode_style, \* TPIU.tpiu_decode_style setting
    stream,         \* TPIU.stream setting
    offset,         \* TPIU.offset setting
    tpiu_ctx,       \* TPIU.ctx : Null or a TPIUCtx (All or Stream style)
    inst,           \* an Instrumentation object driven packet by packet
    inp,            \* the input events (or packets) consumed so far, oldest first
    fsms,           \* the parser's fsm at the entry of each decode call so far
    out,            \* the frames returned by the latest ITMDWT.decode / Instrumentation.packet call
    outs,           \* the frames returned by each such call so far
    tout,           \* the frames returned by the latest TPIU.decode call
    touts,          \* the frames returned by each TPIU.decode call so far
    handed,         \* the frames a Saleae-style deframer has produced so far
    aborted,        \* an exception escaped a decode call
    chunks,         \* the input fragments the environment draws from
    feed,           \* the rest of the fragment being fed
    budget          \* the number of fragments the environment may still start

vars == <<decode_style, port, TPIU_stream, TPIU_offset, ctx, tpiu,
          tpiu_decode_style, stream, offset, tpiu_ctx, inst,
          inp, fsms, out, outs, tout, touts, handed, aborted,
          chunks, feed, budget>>

-----------------------------------------------------------------------------
(* Python values *)

\* None as a time stamp (self.start_time = None)
None == 0 - 1

\* None as an object reference (self.ctx = None, self.instrumentation = None)
Null == [isNone |-> TRUE]

Max(a, b) == IF a >= b THEN a ELSE b

\* bit i of the non-negative integer n: (n >> i) & 1
BitAt(n, i) == (n \div (2 ^ i)) % 2

RECURSIVE IntBitsFrom(_, _)
\* the set bit positions of n, counted from position i
IntBitsFrom(n, i) ==
    IF n = 0 THEN {}
    ELSE (IF n % 2 = 1 THEN {i} ELSE {}) \cup IntBitsFrom(n \div 2, i + 1)

\* the set bit positions of a non-negative integer below 2^31
IntBits(n) == IntBitsFrom(n, 0)

\* x << k on a bit set
Shl(S, k) == {i + k : i \in S}

\* x >> k on a bit set
Shr(S, k) == {i - k : i \in {j \in S : j >= k}}

\* x & ((1 << w) - 1) on a bit set
LowBits(S, w) == {i \in S : i < w}

RECURSIVE BitsVal(_)
\* the integer a bit set stands for (the set must lie below bit 31)
BitsVal(S) ==
    IF S = {} THEN 0
    ELSE LET i == CHOOSE j \in S : TRUE IN (2 ^ i) + BitsVal(S \ {i})

RECURSIVE BitAnd(_, _)
\* a & b on non-negative integers
BitAnd(a, b) ==
    IF a = 0 \/ b = 0 THEN 0
    ELSE ((a % 2) * (b % 2)) + (2 * BitAnd(a \div 2, b \div 2))

RECURSIVE BitOr(_, _)
\* a | b on non-negative integers
BitOr(a, b) ==
    IF a = 0 THEN b
    ELSE IF b = 0 THEN a
    ELSE (IF a % 2 = 1 \/ b % 2 = 1 THEN 1 ELSE 0) + (2 * BitOr(a \div 2, b \div 2))

-----------------------------------------------------------------------------
(* str.format conversions *)

HexDigits == <<"0", "1", "2", "3", "4", "5", "6", "7",
               "8", "9", "A", "B", "C", "D", "E", "F">>

DecDigits == <<"0", "1", "2", "3", "4", "5", "6", "7", "8", "9">>

\* hex digit k (0 = least significant) of a bit set
Nibble(S, k) == BitsVal(Shr(LowBits(S, 4 * k + 4), 4 * k))

\* the number of hex digits a bit set needs
HexLen(S) == IF S = {} THEN 1 ELSE ((CHOOSE m \in S : \A j \in S : j <= m) \div 4) + 1

RECURSIVE HexFrom(_, _)
\* the hex digits k-1 .. 0 of a bit set, most significant first
HexFrom(S, k) ==
    IF k = 0 THEN "" ELSE HexDigits[Nibble(S, k - 1) + 1] \o HexFrom(S, k - 1)

\* '{0:0wX}'.format(x) for x given as a bit set: at least w digits, more if needed
FormatXBits(S, w) == HexFrom(S, Max(w, HexLen(S)))

\* '{0:0wX}'.format(n) for an integer below 2^31
FormatX(n, w) == FormatXBits(IntBits(n), w)

RECURSIVE FormatD(_)
\* '{0:d}'.format(n) for a non-negative integer below 2^31
FormatD(n) ==
    IF n < 10 THEN DecDigits[n + 1]
    ELSE FormatD(n \div 10) \o DecDigits[(n % 10) + 1]

RECURSIVE FormatDLimbs(_, _)
\* '{0:d}'.format(hi * 2^24 + lo), by long division by ten on the two limbs
FormatDLimbs(hi, lo) ==
    LET carry == ((hi % 10) * (2 ^ 24)) + lo
        qhi   == hi \div 10
        qlo   == carry \div 10
        digit == DecDigits[(carry % 10) + 1]
    IN  IF qhi = 0 /\ qlo = 0 THEN digit
        ELSE \* the quotient is qhi * 2^24 + qlo and qlo may exceed 2^24
             FormatDLimbs(qhi + (qlo \div (2 ^ 24)), qlo % (2 ^ 24)) \o digit

\* '{0:d}'.format(x) for x given as a bit set (below 2^48)
FormatDBits(S) == FormatDLimbs(BitsVal(Shr(S, 24)), BitsVal(LowBits(S, 24)))

-----------------------------------------------------------------------------
(* Frames *)

\* AnalyzerFrame(type, start_time, end_time, {'val': data_str})
AnalyzerFrame(type, start_time, end_time, data_str) ==
    [type |-> type, start_time |-> start_time, end_time |-> end_time,
     data |-> [val |-> data_str]]

\* AnalyzerFrame('data', byte_start, byte_end, {'data': bytes([raw_byte])})
DataFrame(byte_start, byte_end, raw_byte) ==
    [type |-> "data", start_time |-> byte_start, end_time |-> byte_end,
     data |-> [data |-> <<raw_byte>>]]

\* use_start = self.start_time; if use_start == None: use_start = start_time
UseStart(self_start, start_time) ==
    IF self_start = None THEN start_time ELSE self_start

-----------------------------------------------------------------------------
(* class Instrumentation *)

\* Instrumentation.__init__
NewInstrumentation ==
    [start_time |-> None, end_time |-> 0, sequence |-> 256, lastseq |-> 0,
     rec_words |-> 0, num_words |-> 0, dvector |-> <<>>]

RECURSIVE FieldsText(_, _, _)
\* for idx in range(self.num_words): data_str += ' {0:08X}'.format(self.dvector[idx])
\* (dvector[idx] past the end of the list is Python's IndexError: no text)
FieldsText(dvector, idx, num_words) ==
    IF idx >= num_words THEN ""
    ELSE " " \o FormatXBits(dvector[idx + 1], 8) \o FieldsText(dvector, idx + 1, num_words)

\* InstrTail with lastseq left alone by a mismatching tail
InstrTail_KeepLastseq(self, start_time, end_time, pdata) ==
    LET snum == BitsVal(LowBits(pdata, 8))
        nf == IF self.sequence # snum
              THEN AnalyzerFrame("err", UseStart(self.start_time, start_time), end_time,
                       "Seq# mismatch: saw " \o FormatX(snum, 2)
                           \o " expected " \o FormatX(self.sequence, 2))
              ELSE AnalyzerFrame("console", self.start_time, end_time,
                       (IF snum # ((self.lastseq + 1) % 256) THEN "[Missed packets] " ELSE "")
                       \o "Seq#" \o FormatX(self.sequence, 2)
                       \o (IF self.rec_words # self.num_words
                           THEN "[Fields saw " \o FormatD(self.num_words) \o " expected "
                                    \o FormatD(self.rec_words) \o "] "
                           ELSE "")
                       \o FieldsText(self.dvector, 0, self.num_words))
    IN  [self |-> [self EXCEPT !.lastseq = IF self.sequence # snum THEN self.lastseq ELSE snum,
                               !.sequence = 256], nf |-> <<nf>>]

\* InstrTail with the wrap of the sequence number at 256 forgotten
InstrTail_NoWrap(self, start_time, end_time, pdata) ==
    LET snum == BitsVal(LowBits(pdata, 8))
        nf == IF self.sequence # snum
              THEN AnalyzerFrame("err", UseStart(self.start_time, start_time), end_time,
                       "Seq# mismatch: saw " \o FormatX(snum, 2)
                           \o " expected " \o FormatX(self.sequence, 2))
              ELSE AnalyzerFrame("console", self.start_time, end_time,
                       (IF snum # (self.lastseq + 1) THEN "[Missed packets] " ELSE "")
                       \o "Seq#" \o FormatX(self.sequence, 2)
                       \o (IF self.rec_words # self.num_words
                           THEN "[Fields saw " \o FormatD(self.num_words) \o " expected "
                                    \o FormatD(self.rec_words) \o "] "
                           ELSE "")
                       \o FieldsText(self.dvector, 0, self.num_words))
    IN  [self |-> [self EXCEPT !.lastseq = snum, !.sequence = 256], nf |-> <<nf>>]

\* the tail branch, size == 1
InstrTail(self, start_time, end_time, pdata) ==
    LET snum == BitsVal(LowBits(pdata, 8))
        nf == IF self.sequence # snum
              THEN AnalyzerFrame("err", UseStart(self.start_time, start_time), end_time,
                       "Seq# mismatch: saw " \o FormatX(snum, 2)
                           \o " expected " \o FormatX(self.sequence, 2))
              ELSE AnalyzerFrame("console", self.start_time, end_time,
                       (IF snum # ((self.lastseq + 1) % 256) THEN "[Missed packets] " ELSE "")
                       \o "Seq#" \o FormatX(self.sequence, 2)
                       \o (IF self.rec_words # self.num_words
                           THEN "[Fields saw " \o FormatD(self.num_words) \o " expected "
                                    \o FormatD(self.rec_words) \o "] "
                           ELSE "")
                       \o FieldsText(self.dvector, 0, self.num_words))
    IN  [self |-> [self EXCEPT !.lastseq = snum, !.sequence = 256], nf |-> <<nf>>]

\* InstrHead with the reset of dvector forgotten
InstrHead_KeepWords(self, start_time, end_time, pdata) ==
    LET nf == IF self.sequence # 256
              THEN <<AnalyzerFrame("err", UseStart(self.start_time, start_time), self.end_time,
                         "Partial record for seq# " \o FormatX(self.sequence, 2))>>
              ELSE <<>>
    IN  [self |-> [self EXCEPT !.num_words = 0,
                               !.sequence = BitsVal(LowBits(pdata, 8)),
                               !.rec_words = BitsVal(LowBits(Shr(pdata, 8), 8)),
                               !.start_time = start_time,
                               !.end_time = end_time],
         nf |-> nf]

\* InstrHead with the partial-record frame ended at the new head's end time
InstrHead_EndOfHead(self, start_time, end_time, pdata) ==
    LET nf == IF self.sequence # 256
              THEN <<AnalyzerFrame("err", UseStart(self.start_time, start_time), end_time,
                         "Partial record for seq# " \o FormatX(self.sequence, 2))>>
              ELSE <<>>
    IN  [self |-> [self EXCEPT !.num_words = 0,
                               !.sequence = BitsVal(LowBits(pdata, 8)),
                               !.rec_words = BitsVal(LowBits(Shr(pdata, 8), 8)),
                               !.start_time = start_time,
                               !.end_time = end_time,
                               !.dvector = <<>>],
         nf |-> nf]

\* the head branch, size == 2
InstrHead(self, start_time, end_time, pdata) ==
    LET nf == IF self.sequence # 256
              THEN <<AnalyzerFrame("err", UseStart(self.start_time, start_time), self.end_time,
                         "Partial record for seq# " \o FormatX(self.sequence, 2))>>
              ELSE <<>>
    IN  [self |-> [self EXCEPT !.num_words = 0,
                               !.sequence = BitsVal(LowBits(pdata, 8)),
                               !.rec_words = BitsVal(LowBits(Shr(pdata, 8), 8)),
                               !.start_time = start_time,
                               !.end_time = end_time,
                               !.dvector = <<>>],
         nf |-> nf]

\* InstrData with the count of words left alone
InstrData_NoCount(self, start_time, end_time, pdata) ==
    [self |-> [self EXCEPT !.dvector = Append(self.dvector, pdata),
                           !.end_time = end_time],
     nf |-> <<>>]

\* the data branch, size == 4
InstrData(self, start_time, end_time, pdata) ==
    [self |-> [self EXCEPT !.dvector = Append(self.dvector, pdata),
                           !.num_words = self.num_words + 1,
                           !.end_time = end_time],
     nf |-> <<>>]

\* the branch for any other size
InstrOther(self, start_time, end_time, size) ==
    [self |-> [self EXCEPT !.sequence = 256],
     nf |-> <<AnalyzerFrame("err", UseStart(self.start_time, start_time), end_time,
                  "Unexpected field size " \o FormatD(size))>>]

\* Instrumentation.packet: the new object and the frame returned (none: <<>>)
InstrPacket(self, start_time, end_time, size, pdata) ==
    IF size = 1 THEN InstrTail(self, start_time, end_time, pdata)
    ELSE IF size = 2 THEN InstrHead(self, start_time, end_time, pdata)
    ELSE IF size = 4 THEN InstrData(self, start_time, end_time, pdata)
    ELSE InstrOther(self, start_time, end_time, size)

-----------------------------------------------------------------------------
(* class ConsoleCtx *)

\* the characters chr(0x20) .. chr(0x5F)
AsciiLow ==
    " !\"#$%&'()*+,-./0123456789:;<=>?@ABCDEFGHIJKLMNOPQRSTUVWXYZ[\\]^_"

\* the characters chr(0x61) .. chr(0x7E)
AsciiHigh == "abcdefghijklmnopqrstuvwxyz{|}~"

\* str(chr(cc)).isprintable() for cc in 0..255
IsPrintable(cc) == (cc >= 32 /\ cc <= 126) \/ (cc >= 161 /\ cc <= 255 /\ cc # 173)

\* chr(cc): the character itself, or a \xNN escape for the grave accent and
\* the Latin-1 characters, which a string of this module cannot hold
Chr(cc) ==
    IF cc >= 32 /\ cc <= 95 THEN SubSeq(AsciiLow, cc - 31, cc - 31)
    ELSE IF cc >= 97 /\ cc <= 126 THEN SubSeq(AsciiHigh, cc - 96, cc - 96)
    ELSE "\\x" \o FormatX(cc, 2)

\* ConsoleCtx.__init__
NewConsoleCtx(start_time) == [start_time |-> start_time, ctext |-> ""]

\* ConsoleCtx.cdata
cdata(self, frame, cc) ==
    IF cc = 10 \/ cc = 0
    THEN [self |-> [self EXCEPT !.ctext = ""],
          nf |-> <<AnalyzerFrame("console", self.start_time, frame.end_time, self.ctext)>>]
    ELSE [self |-> [self EXCEPT
                       !.start_time = IF self.ctext = "" THEN frame.start_time ELSE @,
                       !.ctext = IF IsPrintable(cc) THEN @ \o Chr(cc) ELSE @],
          nf |-> <<>>]

RECURSIVE ConsoleLoop(_, _, _, _, _, _)
\* for idx in range(self.size): nf = self.conctx.cdata(frame, (self.pdata >> (idx * 8)) & 0xFF)
ConsoleLoop(con, frame, pdata, idx, size, nframes) ==
    IF idx >= size THEN [self |-> con, nf |-> nframes]
    ELSE LET r == cdata(con, frame, BitsVal(LowBits(Shr(pdata, idx * 8), 8)))
         IN  ConsoleLoop(r.self, frame, pdata, idx + 1, size, nframes \o r.nf)

-----------------------------------------------------------------------------
(* ITM/DWT packet protocol constants *)

ITMDWTPP_SYNC == 0
ITMDWTPP_OVERFLOW == 112
ITMDWTPP_TYPE_MASK == 3
ITMDWTPP_TYPE_PROTOCOL == 0
ITMDWTPP_TYPE_SOURCE1 == 1
ITMDWTPP_TYPE_SOURCE2 == 2
ITMDWTPP_TYPE_SOURCE4 == 3
ITMDWTPP_PROTOCOL_EXTENSION == 8
ITMDWTPP_SOURCE_SELECTION == 4
ITMDWTPP_SOURCE_SHIFT == 3
ITMDWTPP_SOURCE_MASK == 248
ITMDWTPP_PROTOCOL_EXT_ITM_PAGE_SHIFT == 4
ITMDWTPP_PROTOCOL_EXT_ITM_PAGE_MASK == 112
\* (1 << 7), the continuation flag of a protocol byte
CONTINUATION == 128
DWT_ID_EVENT_COUNTER_WRAP == 0
DWT_ID_EXCEPTION == 1
DWT_ID_PC_SAMPLE == 2
\* the headers of the two global timestamp packets
GTS1_HEADER == 148
GTS2_HEADER == 180

-----------------------------------------------------------------------------
(* class PktCtx *)

\* PktCtx.__init__
NewPktCtx(start_time, dstyle, portaddr) ==
    [start_time |-> start_time, end_time |-> 0, portaddr |-> portaddr,
     fsm |-> "HDR", ipage |-> 0, size |-> 0, pcode |-> 0, pdata |-> {},
     dstyle |-> dstyle, instrumentation |-> Null, conctx |-> Null]

\* paddr = (self.ipage * 32) + self.pcode
Paddr(self) == (self.ipage * 32) + self.pcode

\* the raw text of an ITM packet
ItmText(self) ==
    "Port#" \o FormatD(Paddr(self)) \o " Size#" \o FormatD(self.size) \o " "
    \o (IF self.size = 1 THEN "Data#" \o FormatXBits(LowBits(self.pdata, 8), 2)
        ELSE IF self.size = 2 THEN "Data#" \o FormatXBits(LowBits(self.pdata, 16), 4)
        ELSE "Data#" \o FormatXBits(LowBits(self.pdata, 32), 8))

\* the Console branch of itm_process_data, for the selected port
ItmConsole(self, frame) ==
    LET con == IF self.conctx = Null THEN NewConsoleCtx(frame.start_time) ELSE self.conctx
        r   == ConsoleLoop(con, frame, self.pdata, 0, self.size, <<>>)
    IN  [self |-> [self EXCEPT !.conctx = r.self], decoded |-> r.nf]

\* the Instrumentation branch of itm_process_data, for the selected port
ItmInstrumentation(self, frame) ==
    LET ins == IF self.instrumentation = Null THEN NewInstrumentation ELSE self.instrumentation
        r   == InstrPacket(ins, self.start_time, frame.end_time, self.size, self.pdata)
    IN  [self |-> [self EXCEPT !.instrumentation = r.self], decoded |-> r.nf]

\* the raw branch of itm_process_data
ItmRaw(self, frame) ==
    LET s1 == [self EXCEPT !.end_time = frame.end_time]
    IN  [self |-> s1,
         decoded |-> <<AnalyzerFrame("itm", s1.start_time, s1.end_time, ItmText(s1))>>]

\* itm_process_data with the port test of the Instrumentation style forgotten
itm_process_data_NoPortTest(self, frame) ==
    IF self.dstyle = "Port" /\ Paddr(self) # self.portaddr
    THEN [self |-> self, decoded |-> <<>>]
    ELSE IF self.dstyle = "Console"
    THEN IF Paddr(self) # self.portaddr
         THEN [self |-> self, decoded |-> <<>>]
         ELSE ItmConsole(self, frame)
    ELSE IF self.dstyle = "Instrumentation"
    THEN ItmInstrumentation(self, frame)
    ELSE ItmRaw(self, frame)

\* PktCtx.itm_process_data
itm_process_data(self, frame) ==
    IF self.dstyle = "Port" /\ Paddr(self) # self.portaddr
    THEN [self |-> self, decoded |-> <<>>]
    ELSE IF self.dstyle = "Console"
    THEN IF Paddr(self) # self.portaddr
         THEN [self |-> self, decoded |-> <<>>]
         ELSE ItmConsole(self, frame)
    ELSE IF self.dstyle = "Instrumentation"
    THEN IF Paddr(self) # self.portaddr
         THEN [self |-> self, decoded |-> <<>>]
         ELSE ItmInstrumentation(self, frame)
    ELSE ItmRaw(self, frame)

\* DwtExceptionText with FN taken from bits 8..9 instead of 12..13
DwtExceptionText_Fn8(pdata) ==
    LET exception_number == BitsVal(LowBits(pdata, 9))
        fn == BitsVal(LowBits(Shr(pdata, 8), 2))
        fn_reason == IF fn = 1 THEN "ENTERED"
                     ELSE IF fn = 2 THEN "EXITED"
                     ELSE IF fn = 3 THEN "RESUMED"
                     ELSE "RESERVED"
    IN  " EXC " \o FormatD(exception_number) \o " " \o fn_reason

\* the text of an exception trace packet
DwtExceptionText(pdata) ==
    LET exception_number == BitsVal(LowBits(pdata, 9))
        fn == BitsVal(LowBits(Shr(pdata, 12), 2))
        fn_reason == IF fn = 1 THEN "ENTERED"
                     ELSE IF fn = 2 THEN "EXITED"
                     ELSE IF fn = 3 THEN "RESUMED"
                     ELSE "RESERVED"
    IN  " EXC " \o FormatD(exception_number) \o " " \o fn_reason

\* the text of a DWT packet
DwtText(self) ==
    IF self.pcode = DWT_ID_PC_SAMPLE
    THEN IF self.size = 1
         THEN IF self.pdata = {} THEN " IDLE:SLEEP"
              ELSE " IDLE:" \o FormatXBits(LowBits(self.pdata, 8), 2)
         ELSE IF self.size = 4 THEN " PC:" \o FormatXBits(self.pdata, 8)
         ELSE " PC:Unrecognised"
    ELSE IF self.pcode = DWT_ID_EXCEPTION THEN DwtExceptionText(self.pdata)
    ELSE IF self.pcode = DWT_ID_EVENT_COUNTER_WRAP
    THEN " WRAP " \o FormatXBits(LowBits(self.pdata, 8), 2)
    ELSE IF self.pcode < 8 THEN " RESERVED"
    ELSE " DATA-TRACE:IGNORED"

\* PktCtx.dwt_process_data
dwt_process_data(self, frame) ==
    LET s1 == [self EXCEPT !.end_time = frame.end_time]
    IN  IF self.dstyle = "Console"
        THEN [self |-> s1, decoded |-> <<>>]
        ELSE [self |-> s1,
              decoded |-> <<AnalyzerFrame("dwt", s1.start_time, s1.end_time, DwtText(s1))>>]

\* PktCtx.ext_process_data
ext_process_data(self, frame) ==
    LET s1 == [self EXCEPT !.end_time = frame.end_time]
    IN  [self |-> s1,
         decoded |-> <<AnalyzerFrame("ext", s1.start_time, s1.end_time,
                           " " \o FormatXBits(s1.pdata, 8))>>]

\* PktCtx.local_timestamp
local_timestamp(self, frame) ==
    LET s1 == [self EXCEPT !.end_time = frame.end_time]
        data_str == "Local TS " \o FormatDBits(s1.pdata)
                    \o (IF s1.pcode = 0 THEN " synchronous"
                        ELSE IF s1.pcode = 1 THEN " delayed"
                        ELSE IF s1.pcode = 2 THEN " delayed-generated"
                        ELSE IF s1.pcode = 3 THEN " delayed-relative"
                        ELSE " UNKNOWN")
    IN  [self |-> s1,
         decoded |-> <<AnalyzerFrame("console", s1.start_time, s1.end_time, data_str)>>]

\* PktCtx.global_timestamp1
global_timestamp1(self, frame) ==
    LET s1 == [self EXCEPT !.end_time = frame.end_time]
        data_str == "Global TS " \o FormatDBits(s1.pdata)
                    \o (IF BitAt(s1.pcode, 5) = 1 THEN " ClkChk" ELSE "")
                    \o (IF BitAt(s1.pcode, 6) = 1 THEN " Wrap" ELSE "")
    IN  [self |-> s1,
         decoded |-> <<AnalyzerFrame("console", s1.start_time, s1.end_time, data_str)>>]

\* PktCtx.global_timestamp2
global_timestamp2(self, frame) ==
    LET s1 == [self EXCEPT !.end_time = frame.end_time]
    IN  [self |-> s1,
         decoded |-> <<AnalyzerFrame("console", s1.start_time, s1.end_time,
                           "Global TS Hi-order " \o FormatDBits(s1.pdata))>>]

\* the protocol-packet branch of hdr (source == ITMDWTPP_TYPE_PROTOCOL)
HdrProtocol(self, frame, db) ==
    IF BitAnd(db, ITMDWTPP_PROTOCOL_EXTENSION) # 0
    THEN IF BitAnd(db, CONTINUATION) # 0
         THEN [self |-> [self EXCEPT !.fsm = "EXT",
                                     !.pdata = IntBits((db \div 16) % 8)],
               decoded |-> <<>>]
         ELSE IF BitAnd(db, ITMDWTPP_SOURCE_SELECTION) # 0
         THEN [self |-> [self EXCEPT !.pdata = {}], decoded |-> <<>>]
         ELSE [self |-> [self EXCEPT !.ipage =
                            BitAnd(db, ITMDWTPP_PROTOCOL_EXT_ITM_PAGE_MASK)
                                \div (2 ^ ITMDWTPP_PROTOCOL_EXT_ITM_PAGE_SHIFT)],
               decoded |-> <<>>]
    ELSE IF BitAnd(db, ITMDWTPP_SOURCE_SELECTION) # 0
    THEN LET s1 == [self EXCEPT !.pdata = {}, !.pcode = 0]
         IN  IF db = GTS1_HEADER THEN [self |-> [s1 EXCEPT !.fsm = "GTS1"], decoded |-> <<>>]
             ELSE IF db = GTS2_HEADER THEN [self |-> [s1 EXCEPT !.fsm = "GTS2"], decoded |-> <<>>]
             ELSE [self |-> s1,
                   decoded |-> <<AnalyzerFrame("err",
                                     UseStart(self.start_time, frame.start_time),
                                     frame.end_time,
                                     "Global TimeStamp Decode " \o FormatX(db, 2))>>]
    ELSE IF BitAnd(db, CONTINUATION) # 0
    THEN [self |-> [self EXCEPT !.fsm = "LTS",
                                !.pcode = (db \div 16) % 8,
                                !.pdata = {}],
          decoded |-> <<>>]
    ELSE local_timestamp([self EXCEPT !.pcode = 0,
                                      !.pdata = IntBits((db \div 16) % 8)], frame)

\* HdrSource with the accumulator left as the last packet filled it
HdrSource_KeepPdata(self, frame, db) ==
    [self |-> [self EXCEPT
                  !.fsm = IF BitAnd(db, ITMDWTPP_SOURCE_SELECTION) # 0
                          THEN "DWT1" ELSE "ITM1",
                  !.pcode = BitAnd(db, ITMDWTPP_SOURCE_MASK) \div (2 ^ ITMDWTPP_SOURCE_SHIFT),
                  !.start_time = frame.start_time],
     decoded |-> <<>>]

\* HdrSource with the shift of the port field forgotten
HdrSource_NoShift(self, frame, db) ==
    [self |-> [self EXCEPT
                  !.fsm = IF BitAnd(db, ITMDWTPP_SOURCE_SELECTION) # 0
                          THEN "DWT1" ELSE "ITM1",
                  !.pcode = BitAnd(db, ITMDWTPP_SOURCE_MASK),
                  !.pdata = {},
                  !.start_time = frame.start_time],
     decoded |-> <<>>]

\* the source-packet branch of hdr (SWIT or hardware source)
HdrSource(self, frame, db) ==
    LET id == BitAnd(db, ITMDWTPP_SOURCE_MASK) \div (2 ^ ITMDWTPP_SOURCE_SHIFT)
    IN  [self |-> [self EXCEPT
                      !.fsm = IF BitAnd(db, ITMDWTPP_SOURCE_SELECTION) # 0
                              THEN "DWT1" ELSE "ITM1",
                      !.pcode = id,
                      !.pdata = {},
                      !.start_time = frame.start_time],
         decoded |-> <<>>]

\* size as hdr computes it from the two type bits
HdrSize(source) ==
    IF source = ITMDWTPP_TYPE_SOURCE1 THEN 1
    ELSE IF source = ITMDWTPP_TYPE_SOURCE2 THEN 2
    ELSE IF source = ITMDWTPP_TYPE_SOURCE4 THEN 4
    ELSE 0

\* hdr with the page left alone by a synchronisation byte
hdr_SyncKeepsPage(self, frame, db) ==
    IF db = ITMDWTPP_SYNC \/ db = ITMDWTPP_OVERFLOW
    THEN [self |-> [self EXCEPT !.start_time = None], decoded |-> <<>>]
    ELSE LET source == BitAnd(db, ITMDWTPP_TYPE_MASK)
             r == IF source = ITMDWTPP_TYPE_PROTOCOL
                  THEN HdrProtocol(self, frame, db)
                  ELSE HdrSource(self, frame, db)
         IN  [self |-> [r.self EXCEPT !.size = HdrSize(source)], decoded |-> r.decoded]

\* PktCtx.hdr
hdr(self, frame, db) ==
    IF db = ITMDWTPP_SYNC
    THEN [self |-> [self EXCEPT !.start_time = None, !.ipage = 0], decoded |-> <<>>]
    ELSE IF db = ITMDWTPP_OVERFLOW
    THEN [self |-> [self EXCEPT !.start_time = None], decoded |-> <<>>]
    ELSE LET source == BitAnd(db, ITMDWTPP_TYPE_MASK)
             r == IF source = ITMDWTPP_TYPE_PROTOCOL
                  THEN HdrProtocol(self, frame, db)
                  ELSE HdrSource(self, frame, db)
         IN  [self |-> [r.self EXCEPT !.size = HdrSize(source)], decoded |-> r.decoded]

\* the shape shared by itm1..itm3: "if self.size == n: process, HDR; else: next"
ItmStep(self, frame, pdata, n, next) ==
    LET s1 == [self EXCEPT !.pdata = pdata]
    IN  IF s1.size = n
        THEN LET r == itm_process_data(s1, frame)
             IN  [self |-> [r.self EXCEPT !.fsm = "HDR"], decoded |-> r.decoded]
        ELSE [self |-> [s1 EXCEPT !.fsm = next], decoded |-> <<>>]

\* PktCtx.itm1
itm1(self, frame, db) == ItmStep(self, frame, IntBits(db), 1, "ITM2")

\* PktCtx.itm2
itm2(self, frame, db) == ItmStep(self, frame, self.pdata \cup Shl(IntBits(db), 8), 2, "ITM3")

\* PktCtx.itm3
itm3(self, frame, db) == ItmStep(self, frame, self.pdata \cup Shl(IntBits(db), 16), 3, "ITM4")

\* itm4 with the shift of itm3 copied
itm4_Shift16(self, frame, db) ==
    LET s1 == [self EXCEPT !.pdata = self.pdata \cup Shl(IntBits(db), 16)]
        r  == IF s1.size = 4 THEN itm_process_data(s1, frame)
              ELSE [self |-> s1, decoded |-> <<>>]
    IN  [self |-> [r.self EXCEPT !.fsm = "HDR"], decoded |-> r.decoded]

\* PktCtx.itm4
itm4(self, frame, db) ==
    LET s1 == [self EXCEPT !.pdata = self.pdata \cup Shl(IntBits(db), 24)]
        r  == IF s1.size = 4 THEN itm_process_data(s1, frame)
              ELSE [self |-> s1, decoded |-> <<>>]
    IN  [self |-> [r.self EXCEPT !.fsm = "HDR"], decoded |-> r.decoded]

\* the shape shared by dwt1..dwt3
DwtStep(self, frame, pdata, n, next) ==
    LET s1 == [self EXCEPT !.pdata = pdata]
    IN  IF s1.size = n
        THEN LET r == dwt_process_data(s1, frame)
             IN  [self |-> [r.self EXCEPT !.fsm = "HDR"], decoded |-> r.decoded]
        ELSE [self |-> [s1 EXCEPT !.fsm = next], decoded |-> <<>>]

\* PktCtx.dwt1
dwt1(self, frame, db) == DwtStep(self, frame, IntBits(db), 1, "DWT2")

\* dwt2 with the shift of the second byte forgotten
dwt2_NoShift(self, frame, db) == DwtStep(self, frame, self.pdata \cup IntBits(db), 2, "DWT3")

\* PktCtx.dwt2
dwt2(self, frame, db) == DwtStep(self, frame, self.pdata \cup Shl(IntBits(db), 8), 2, "DWT3")

\* PktCtx.dwt3
dwt3(self, frame, db) == DwtStep(self, frame, self.pdata \cup Shl(IntBits(db), 16), 3, "DWT4")

\* PktCtx.dwt4
dwt4(self, frame, db) ==
    LET s1 == [self EXCEPT !.pdata = self.pdata \cup Shl(IntBits(db), 24)]
        r  == IF s1.size = 4 THEN dwt_process_data(s1, frame)
              ELSE [self |-> s1, decoded |-> <<>>]
    IN  [self |-> [r.self EXCEPT !.fsm = "HDR"], decoded |-> r.decoded]

\* ext with the continuation bit masked off the fourth byte too
ext_Mask4th(self, frame, db) ==
    LET add == IF self.size = 0 THEN Shl(IntBits(db % 128), 3)
               ELSE IF self.size = 1 THEN Shl(IntBits(db % 128), 10)
               ELSE IF self.size = 2 THEN Shl(IntBits(db % 128), 17)
               ELSE Shl(IntBits(db % 128), 24)
        continuation == IF self.size \in {0, 1, 2} THEN BitAnd(db, CONTINUATION) # 0
                        ELSE FALSE
        s1 == [self EXCEPT !.pdata = self.pdata \cup add]
    IN  IF continuation
        THEN [self |-> [s1 EXCEPT !.size = s1.size + 1], decoded |-> <<>>]
        ELSE LET r == ext_process_data(s1, frame)
             IN  [self |-> [r.self EXCEPT !.fsm = "HDR"], decoded |-> r.decoded]

\* PktCtx.ext
ext(self, frame, db) ==
    LET add == IF self.size = 0 THEN Shl(IntBits(db % 128), 3)
               ELSE IF self.size = 1 THEN Shl(IntBits(db % 128), 10)
               ELSE IF self.size = 2 THEN Shl(IntBits(db % 128), 17)
               ELSE Shl(IntBits(db), 24)
        continuation == IF self.size \in {0, 1, 2} THEN BitAnd(db, CONTINUATION) # 0
                        ELSE FALSE
        s1 == [self EXCEPT !.pdata = self.pdata \cup add]
    IN  IF continuation
        THEN [self |-> [s1 EXCEPT !.size = s1.size + 1], decoded |-> <<>>]
        ELSE LET r == ext_process_data(s1, frame)
             IN  [self |-> [r.self EXCEPT !.fsm = "HDR"], decoded |-> r.decoded]

\* TsStep with the return to HDR forgotten on the overrun path
TsStep_NoReset(s1, frame, db, limit, what, r) ==
    IF BitAnd(db, CONTINUATION) # 0
    THEN LET s2 == [s1 EXCEPT !.size = s1.size + 1]
         IN  IF s2.size = limit
             THEN [self |-> s2,
                   decoded |-> <<AnalyzerFrame("err", s2.start_time, frame.end_time, what)>>]
             ELSE [self |-> s2, decoded |-> <<>>]
    ELSE [self |-> [r.self EXCEPT !.fsm = "HDR"], decoded |-> r.decoded]

\* the shape shared by lts, gts1 and gts2 once pdata and pcode are updated:
\* continue, give up after `limit` continuations, or emit the timestamp
TsStep(s1, frame, db, limit, what, r) ==
    IF BitAnd(db, CONTINUATION) # 0
    THEN LET s2 == [s1 EXCEPT !.size = s1.size + 1]
         IN  IF s2.size = limit
             THEN [self |-> [s2 EXCEPT !.fsm = "HDR"],
                   decoded |-> <<AnalyzerFrame("err", s2.start_time, frame.end_time, what)>>]
             ELSE [self |-> s2, decoded |-> <<>>]
    ELSE [self |-> [r.self EXCEPT !.fsm = "HDR"], decoded |-> r.decoded]

\* lts giving up only after 8 continuations
lts_Limit8(self, frame, db) ==
    LET s1 == [self EXCEPT !.pdata = self.pdata \cup Shl(IntBits(db % 128), self.size * 7)]
    IN  TsStep(s1, frame, db, 8, "Local TimeStamp Continuation", local_timestamp(s1, frame))

\* PktCtx.lts
lts(self, frame, db) ==
    LET s1 == [self EXCEPT !.pdata = self.pdata \cup Shl(IntBits(db % 128), self.size * 7)]
    IN  TsStep(s1, frame, db, 4, "Local TimeStamp Continuation", local_timestamp(s1, frame))

\* PktCtx.gts1
gts1(self, frame, db) ==
    LET s1 == IF self.size # 3
              THEN [self EXCEPT !.pdata = self.pdata \cup Shl(IntBits(db % 128), self.size * 7)]
              ELSE [self EXCEPT !.pdata = self.pdata \cup Shl(IntBits(db % 32), self.size * 7),
                                !.pcode = BitAnd(db, 96)]
    IN  TsStep(s1, frame, db, 4, "Global TimeStamp1 Continuation", global_timestamp1(s1, frame))

\* gts2 giving up after 4 continuations, as lts and gts1 do
gts2_Limit4(self, frame, db) ==
    LET s1 == [self EXCEPT !.pdata = self.pdata \cup Shl(IntBits(db % 128), self.size * 7)]
    IN  TsStep(s1, frame, db, 4, "Global TimeStamp2 Continuation", global_timestamp2(s1, frame))

\* PktCtx.gts2
gts2(self, frame, db) ==
    LET s1 == [self EXCEPT !.pdata = self.pdata \cup Shl(IntBits(db % 128), self.size * 7)]
    IN  TsStep(s1, frame, db, 6, "Global TimeStamp2 Continuation", global_timestamp2(s1, frame))

\* frame.data['data'] exists: the lookup in PktCtx.run does not raise KeyError
HasDataByte(frame) == "data" \in DOMAIN frame.data

\* PktCtx.run
run(self, frame) ==
    LET db == frame.data.data[1]
    IN  CASE self.fsm = "HDR"  -> hdr(self, frame, db)
          [] self.fsm = "ITM1" -> itm1(self, frame, db)
          [] self.fsm = "ITM2" -> itm2(self, frame, db)
          [] self.fsm = "ITM3" -> itm3(self, frame, db)
          [] self.fsm = "ITM4" -> itm4(self, frame, db)
          [] self.fsm = "DWT1" -> dwt1(self, frame, db)
          [] self.fsm = "DWT2" -> dwt2(self, frame, db)
          [] self.fsm = "DWT3" -> dwt3(self, frame, db)
          [] self.fsm = "DWT4" -> dwt4(self, frame, db)
          [] self.fsm = "EXT"  -> ext(self, frame, db)
          [] self.fsm = "LTS"  -> lts(self, frame, db)
          [] self.fsm = "GTS1" -> gts1(self, frame, db)
          [] self.fsm = "GTS2" -> gts2(self, frame, db)

-----------------------------------------------------------------------------
(* class TPIUCtx *)

\* the length of a TPIU frame, and its two sync byte values
TPIU_FRAME_LEN == 16
TPIU_SYNC_FF == 255
TPIU_SYNC_7F == 127

\* TPIUCtx.__init__ : packet entries are (byte, start_time, end_time)
NewTPIUCtx(tpdstyle, stream_match, offs) ==
    [start_time |-> None, dstyle |-> tpdstyle, stream_match |-> stream_match,
     stream_active |-> 0, bidx |-> offs,
     packet |-> [i \in 1..offs |-> <<0, None, None>>]]

RECURSIVE SaleaeFrames(_, _)
\* the per-byte 'data' frames of dump_stream, from entry idx on
SaleaeFrames(databytes, idx) ==
    IF idx > Len(databytes) THEN <<>>
    ELSE (IF databytes[idx][2] # None /\ databytes[idx][3] # None
          THEN <<DataFrame(databytes[idx][2], databytes[idx][3], databytes[idx][1])>>
          ELSE <<>>)
         \o SaleaeFrames(databytes, idx + 1)

RECURSIVE StreamText_Dummies(_, _)
\* StreamText with the test for prefilled entries (None times) forgotten
StreamText_Dummies(databytes, idx) ==
    IF idx > Len(databytes) THEN ""
    ELSE " " \o FormatX(databytes[idx][1], 2) \o StreamText_Dummies(databytes, idx + 1)

RECURSIVE StreamText(_, _)
\* the hex payload text of dump_stream, from entry idx on
StreamText(databytes, idx) ==
    IF idx > Len(databytes) THEN ""
    ELSE (IF databytes[idx][2] # None /\ databytes[idx][3] # None
          THEN " " \o FormatX(databytes[idx][1], 2)
          ELSE "")
         \o StreamText(databytes, idx + 1)

\* dump_stream with the stream filter of the Saleae style forgotten
dump_stream_NoFilter(self, start_time, end_time, streamid, databytes) ==
    IF self.dstyle = "Stream" /\ streamid # self.stream_match THEN <<>>
    ELSE IF Len(databytes) # 0
    THEN IF self.dstyle = "Saleae"
         THEN SaleaeFrames(databytes, 1)
         ELSE <<AnalyzerFrame("tpiu", start_time, end_time,
                    "Stream" \o FormatD(streamid) \o ":" \o StreamText(databytes, 1))>>
    ELSE <<>>

\* TPIUCtx.dump_stream: the frames it returns (None and [] are both <<>>)
dump_stream(self, start_time, end_time, streamid, databytes) ==
    IF self.dstyle = "Stream" /\ streamid # self.stream_match THEN <<>>
    ELSE IF Len(databytes) # 0
    THEN IF self.dstyle = "Saleae"
         THEN IF streamid # self.stream_match THEN <<>>
              ELSE SaleaeFrames(databytes, 1)
         ELSE <<AnalyzerFrame("tpiu", start_time, end_time,
                    "Stream" \o FormatD(streamid) \o ":" \o StreamText(databytes, 1))>>
    ELSE <<>>

\* the local variables of process_byte at the top of its "for idx in range(15)" loop
LoopStart(self) ==
    [self |-> [self EXCEPT !.bidx = 0],
     databytes |-> <<>>,
     lsbits |-> self.packet[16][1],
     stream_start_time |-> self.start_time,
     pending_nextstream |-> None,
     do_sync |-> FALSE,
     frames |-> <<>>,
     broke |-> FALSE]

\* (lsbits >> (idx >> 1)) & 1
LsBit(L, idx) == BitAt(L.lsbits, idx \div 2)

\* SyncEnd with the terminator kept at the head of the retained entries
SyncEnd_KeepTerminator(L, frame, idx) ==
    LET synclen == idx + 1
        sync_end_time == IF L.self.packet[idx + 1][3] = None THEN frame.end_time
                         ELSE L.self.packet[idx + 1][3]
        kept == SubSeq(L.self.packet, synclen, Len(L.self.packet))
        data_str == (IF synclen = 2 THEN "Short " ELSE IF synclen = 4 THEN "" ELSE "BAD ")
                    \o "Sync"
    IN  [L EXCEPT !.do_sync = FALSE,
                  !.self = [L.self EXCEPT !.packet = kept,
                                          !.bidx = 16 - synclen,
                                          !.start_time = kept[1][2]],
                  !.frames = Append(L.frames,
                                 AnalyzerFrame("tpiu", L.stream_start_time, sync_end_time, data_str)),
                  !.broke = TRUE]

\* the sync terminator 0x7F at odd index idx: emit the Sync frame, drop the
\* consumed entries, keep the rest as the start of the next frame, break
SyncEnd(L, frame, idx) ==
    LET synclen == idx + 1
        sync_end_time == IF L.self.packet[idx + 1][3] = None THEN frame.end_time
                         ELSE L.self.packet[idx + 1][3]
        kept == SubSeq(L.self.packet, synclen + 1, Len(L.self.packet))
        data_str == (IF synclen = 2 THEN "Short " ELSE IF synclen = 4 THEN "" ELSE "BAD ")
                    \o "Sync"
    IN  [L EXCEPT !.do_sync = FALSE,
                  !.self = [L.self EXCEPT !.packet = kept,
                                          !.bidx = 16 - synclen,
                                          !.start_time = kept[1][2]],
                  !.frames = Append(L.frames,
                                 AnalyzerFrame("tpiu", L.stream_start_time, sync_end_time, data_str)),
                  !.broke = TRUE]

\* an odd-index byte
OddByte(L, frame, idx) ==
    LET e == L.self.packet[idx + 1]
        pb == e[1]
    IN  IF L.do_sync
        THEN IF pb = TPIU_SYNC_7F THEN SyncEnd(L, frame, idx)
             ELSE IF pb # TPIU_SYNC_FF
             THEN [L EXCEPT !.frames = Append(L.frames,
                      AnalyzerFrame("err", L.stream_start_time, frame.end_time, "Expected FF"))]
             ELSE L
        ELSE LET databytes == Append(L.databytes, e)
             IN  IF L.pending_nextstream # None
                 THEN [L EXCEPT !.frames = L.frames \o
                                    dump_stream(L.self, L.stream_start_time, frame.end_time,
                                                L.self.stream_active, databytes),
                                !.self = [L.self EXCEPT !.stream_active = L.pending_nextstream],
                                !.pending_nextstream = None,
                                !.databytes = <<>>]
                 ELSE [L EXCEPT !.databytes = databytes]

\* an even-index byte with bit 0 set and not 0xFF: a stream marker
StreamMarker(L, frame, idx) ==
    LET pb == L.self.packet[idx + 1][1]
        nextstream == pb \div 2
    IN  IF nextstream # L.self.stream_active
        THEN LET L1 == [L EXCEPT !.stream_start_time = L.self.packet[idx + 1][2]]
             IN  IF LsBit(L, idx) = 1
                 THEN [L1 EXCEPT !.pending_nextstream = nextstream]
                 ELSE [L1 EXCEPT !.frames = L1.frames \o
                                     dump_stream(L1.self, L1.stream_start_time, frame.end_time,
                                                 L1.self.stream_active, L1.databytes),
                                 !.self = [L1.self EXCEPT !.stream_active = nextstream]]
        ELSE L

\* an even-index byte
EvenByte(L, frame, idx) ==
    LET e == L.self.packet[idx + 1]
        pb == e[1]
    IN  IF BitAt(pb, 0) = 1
        THEN IF pb = TPIU_SYNC_FF THEN [L EXCEPT !.do_sync = TRUE]
             ELSE StreamMarker(L, frame, idx)
        ELSE IF L.do_sync
        THEN [L EXCEPT !.frames = Append(L.frames,
                 AnalyzerFrame("err", L.stream_start_time, frame.end_time, "Expected LongSync FF"))]
        ELSE [L EXCEPT !.databytes = Append(L.databytes,
                 <<BitOr(pb, LsBit(L, idx)), e[2], e[3]>>)]

RECURSIVE TpiuLoop(_, _, _)
\* for idx in range(15): ... (with its break)
TpiuLoop(L, frame, idx) ==
    IF idx >= 15 \/ L.broke THEN L
    ELSE TpiuLoop(IF idx % 2 = 1 THEN OddByte(L, frame, idx) ELSE EvenByte(L, frame, idx),
                  frame, idx + 1)

\* the processing of a full buffer: the loop, then the dump of what is left
ProcessPacket(self, frame) ==
    LET L == TpiuLoop(LoopStart(self), frame, 0)
    IN  [self |-> L.self,
         frames |-> L.frames \o
                    (IF Len(L.databytes) # 0
                     THEN dump_stream(L.self, L.stream_start_time, frame.end_time,
                                      L.self.stream_active, L.databytes)
                     ELSE <<>>)]

\* process_byte with the clearing of the buffer at index 0 forgotten
process_byte_NoClear(self, frame, db) ==
    LET s0 == IF self.bidx = 0
              THEN [self EXCEPT !.start_time = frame.start_time]
              ELSE self
        s1 == [s0 EXCEPT !.packet = Append(s0.packet, <<db, frame.start_time, frame.end_time>>),
                         !.bidx = s0.bidx + 1]
    IN  IF s1.bidx = TPIU_FRAME_LEN THEN ProcessPacket(s1, frame)
        ELSE [self |-> s1, frames |-> <<>>]

\* TPIUCtx.process_byte
process_byte(self, frame, db) ==
    LET s0 == IF self.bidx = 0
              THEN [self EXCEPT !.start_time = frame.start_time, !.packet = <<>>]
              ELSE self
        s1 == [s0 EXCEPT !.packet = Append(s0.packet, <<db, frame.start_time, frame.end_time>>),
                         !.bidx = s0.bidx + 1]
    IN  IF s1.bidx = TPIU_FRAME_LEN THEN ProcessPacket(s1, frame)
        ELSE [self |-> s1, frames |-> <<>>]

-----------------------------------------------------------------------------
(* The analyzers *)

\* the upstream frame of input event number n (0-based): one byte, its span,
\* and the 'error' entry when the upstream analyzer flagged the byte
InputFrame(n, db, error) ==
    [type |-> "data", start_time |-> 2 * n, end_time |-> (2 * n) + 1,
     data |-> IF error THEN [data |-> <<db>>, error |-> "framing"]
              ELSE [data |-> <<db>>]]

\* the DecodeStyle that ITMDWT.decode derives from the decode_style setting
DecodeStyleOf(setting) ==
    IF setting = "Port" THEN "Port"
    ELSE IF setting = "Console" THEN "Console"
    ELSE IF setting = "Instrumentation" THEN "Instrumentation"
    ELSE "All"

\* the DecodeStyleTPIU that TPIU.decode derives from the tpiu_decode_style setting
DecodeStyleTPIUOf(setting) == IF setting = "Stream" THEN "Stream" ELSE "All"

RECURSIVE RunFrames(_, _, _, _)
\* for idx in range(len(tframes)): iframe = self.ctx.run(tframes[idx]); nf += iframe
\* raised: a frame without a 'data' entry reached PktCtx.run (KeyError)
RunFrames(c, tframes, idx, nf) ==
    IF idx > Len(tframes) THEN [ctx |-> c, nf |-> nf, raised |-> FALSE]
    ELSE IF ~HasDataByte(tframes[idx]) THEN [ctx |-> c, nf |-> <<>>, raised |-> TRUE]
    ELSE LET r == run(c, tframes[idx])
         IN  RunFrames(r.self, tframes, idx + 1, nf \o r.decoded)

\* ITMDWT.decode on the analyzer state (c, t): the new state, the frames
\* returned, the frames the deframer produced, and whether an exception escaped
ITMDWT_decode(c, t, frame) ==
    LET c1 == IF c = Null
              THEN NewPktCtx(frame.start_time, DecodeStyleOf(decode_style), port)
              ELSE c
    IN  IF TPIU_stream # 0
        THEN LET t1 == IF t = Null THEN NewTPIUCtx("Saleae", TPIU_stream, TPIU_offset) ELSE t
                 p  == process_byte(t1, frame, frame.data.data[1])
                 r  == RunFrames(c1, p.frames, 1, <<>>)
             IN  [ctx |-> r.ctx, tpiu |-> p.self, nf |-> r.nf,
                  tframes |-> p.frames, raised |-> r.raised]
        ELSE LET r == run(c1, frame)
             IN  [ctx |-> r.self, tpiu |-> t, nf |-> r.decoded,
                  tframes |-> <<>>, raised |-> FALSE]

\* TPIU.decode on the analyzer state t: the new state and the frames returned
TPIU_decode(t, frame) ==
    LET t1 == IF t = Null
              THEN NewTPIUCtx(DecodeStyleTPIUOf(tpiu_decode_style), stream, offset)
              ELSE t
        p  == process_byte(t1, frame, frame.data.data[1])
    IN  [ctx |-> p.self, nf |-> p.frames]

RECURSIVE Flatten(_)
\* the frames of a sequence of per-call results, in emission order
Flatten(ss) == IF ss = <<>> THEN <<>> ELSE Head(ss) \o Flatten(Tail(ss))

-----------------------------------------------------------------------------
(* The environment: input fragments *)

\* the number of fragments one behaviour feeds
MaxChunks == 3

\* a fragment of plain bytes
Bytes(bs) == [i \in 1..Len(bs) |-> [db |-> bs[i], error |-> FALSE]]

\* a one-byte fragment that upstream flagged as erroneous
ErrByte(db) == <<[db |-> db, error |-> TRUE]>>

\* the fragments the environment may feed next: the rest of the one in
\* progress, or any fragment while the budget lasts
Offered == IF feed # <<>> THEN {feed}
           ELSE IF budget > 0 THEN chunks ELSE {}

\* what feeding the head of fragment ch does to the environment
Fed(ch) ==
    /\ feed' = Tail(ch)
    /\ budget' = IF feed = <<>> THEN budget - 1 ELSE budget
    /\ UNCHANGED chunks

Settings == <<decode_style, port, TPIU_stream, TPIU_offset,
              tpiu_decode_style, stream, offset>>

\* one ITMDWT.decode call on the next input event
DecodeITMDWT ==
    /\ ~aborted
    /\ \E ch \in Offered :
       \E frame \in {InputFrame(Len(inp), Head(ch).db, Head(ch).error)} :
         \E r \in {ITMDWT_decode(ctx, tpiu, frame)} :
             /\ Fed(ch)
             /\ inp' = Append(inp, frame)
             /\ fsms' = Append(fsms, IF ctx = Null THEN "HDR" ELSE ctx.fsm)
             /\ ctx' = r.ctx
             /\ tpiu' = r.tpiu
             /\ out' = r.nf
             /\ outs' = Append(outs, r.nf)
             /\ handed' = handed \o r.tframes
             /\ aborted' = r.raised
    /\ UNCHANGED <<Settings, tpiu_ctx, inst, tout, touts>>

\* one TPIU.decode call on the next input event, with a Saleae-style deframer
\* (as ITMDWT builds it) consuming the same event beside it
DecodeTPIU ==
    /\ \E ch \in Offered :
       \E frame \in {InputFrame(Len(inp), Head(ch).db, Head(ch).error)} :
         \E r \in {TPIU_decode(tpiu_ctx, frame)} :
           \E p \in {process_byte(IF tpiu = Null
                                  THEN NewTPIUCtx("Saleae", TPIU_stream, TPIU_offset)
                                  ELSE tpiu,
                                  frame, frame.data.data[1])} :
             /\ Fed(ch)
             /\ inp' = Append(inp, frame)
             /\ tpiu_ctx' = r.ctx
             /\ tout' = r.nf
             /\ touts' = Append(touts, r.nf)
             /\ tpiu' = p.self
             /\ handed' = handed \o p.frames
    /\ UNCHANGED <<Settings, ctx, inst, fsms, out, outs, aborted>>

\* one Instrumentation.packet call; a fragment is a run of (size, pdata) packets
PacketInst ==
    /\ \E ch \in Offered :
       \E pk \in {[size |-> Head(ch).size, pdata |-> Head(ch).pdata,
                   start_time |-> 2 * Len(inp), end_time |-> (2 * Len(inp)) + 1]} :
         \E r \in {InstrPacket(inst, pk.start_time, pk.end_time, pk.size, pk.pdata)} :
             /\ Fed(ch)
             /\ inp' = Append(inp, pk)
             /\ inst' = r.self
             /\ out' = r.nf
             /\ outs' = Append(outs, r.nf)
    /\ UNCHANGED <<Settings, ctx, tpiu, tpiu_ctx, fsms, tout, touts, handed, aborted>>

\* the state after construction: no context yet, nothing consumed
InitCommon ==
    /\ ctx = Null /\ tpiu = Null /\ tpiu_ctx = Null
    /\ inst = NewInstrumentation
    /\ inp = <<>> /\ fsms = <<>>
    /\ out = <<>> /\ outs = <<>> /\ tout = <<>> /\ touts = <<>> /\ handed = <<>>
    /\ aborted = FALSE
    /\ feed = <<>> /\ budget = MaxChunks

-----------------------------------------------------------------------------
(* Specification Spec: the ITM/DWT analyzer with TPIU bypassed *)

\* sync, overflow, single-byte local timestamp, an unrecognised global
\* timestamp header, LTS / GTS1 / GTS2 packets whose continuation never ends,
\* a record tail, head and data word on port 0, a DWT counter-wrap packet,
\* and a byte flagged by upstream
ParserChunks ==
    { Bytes(<<0>>), Bytes(<<112>>), Bytes(<<80>>), Bytes(<<4>>),
      Bytes(<<192, 128, 128, 128, 128>>),
      Bytes(<<148, 128, 128, 128, 128>>),
      Bytes(<<180, 128, 128, 128, 128, 128, 128>>),
      Bytes(<<1, 255>>), Bytes(<<2, 255, 1>>), Bytes(<<3, 239, 190, 173, 222>>),
      Bytes(<<5, 1>>), ErrByte(80) }

DecodeStyles == {"All", "Port", "Console", "Instrumentation"}

Init ==
    /\ InitCommon
    /\ decode_style \in DecodeStyles
    /\ port = 0
    /\ TPIU_stream = 0 /\ TPIU_offset = 0
    /\ tpiu_decode_style = "All" /\ stream = 1 /\ offset = 0
    /\ chunks = ParserChunks

Next == DecodeITMDWT

Spec == Init /\ [][Next]_vars

-----------------------------------------------------------------------------
(* Specification SpecScenario: the bypassed analyzer on the end-to-end      *)
(* scenarios and on DWT exception packets                                   *)

\* low and high payload bytes of the exception packets fed
ExcLow == {15, 255}
ExcHigh == {0, 16, 32, 49}

\* S1 and S2 as the specification gives them, the same with the header that
\* encodes the size the scenario names, and the exception packets
ScenarioChunks ==
    { Bytes(<<11, 170>>), Bytes(<<25, 170>>),
      Bytes(<<24, 193, 222, 173, 190, 239>>), Bytes(<<24, 195, 222, 173, 190, 239>>) }
    \cup { Bytes(<<14, b0, b1>>) : b0 \in ExcLow, b1 \in ExcHigh }

InitScenario ==
    /\ InitCommon
    /\ decode_style \in DecodeStyles
    /\ port = 0
    /\ TPIU_stream = 0 /\ TPIU_offset = 0
    /\ tpiu_decode_style = "All" /\ stream = 1 /\ offset = 0
    /\ chunks = ScenarioChunks

SpecScenario == InitScenario /\ [][DecodeITMDWT]_vars

-----------------------------------------------------------------------------
(* Specification SpecInst: the record reassembler, packet by packet *)

\* the largest field count of the record heads fed
MaxWords == 2

\* the sequence numbers fed: the last one before the wrap, and the first after
SeqNums == {255, 0}

\* data word number i: 0x80000000 + i
Word(i) == IntBits(i) \cup {31}

HeadPacket(n, ss) == [size |-> 2, pdata |-> IntBits((256 * n) + ss)]
DataPacket(i) == [size |-> 4, pdata |-> Word(i)]
TailPacket(ss) == [size |-> 1, pdata |-> IntBits(ss)]

\* a well-formed record: head-n, n data words, tail with the same sequence number
RecordChunk(n, ss) ==
    <<HeadPacket(n, ss)>> \o [i \in 1..n |-> DataPacket(i)] \o <<TailPacket(ss)>>

\* single packets of every kind (a 3-byte write is none the protocol has),
\* and whole records
InstChunks ==
    { <<HeadPacket(n, ss)>> : n \in 0..MaxWords, ss \in SeqNums }
    \cup { <<DataPacket(1)>>, <<DataPacket(2)>>, <<[size |-> 3, pdata |-> {}]>> }
    \cup { <<TailPacket(ss)>> : ss \in SeqNums }
    \cup { RecordChunk(n, ss) : n \in 0..MaxWords, ss \in SeqNums }

InitInst ==
    /\ InitCommon
    /\ decode_style = "Instrumentation"
    /\ port = 0
    /\ TPIU_stream = 0 /\ TPIU_offset = 0
    /\ tpiu_decode_style = "All" /\ stream = 1 /\ offset = 0
    /\ chunks = InstChunks

SpecInst == InitInst /\ [][PacketInst]_vars

-----------------------------------------------------------------------------
(* Specifications SpecTPIU and SpecStack: TPIU frames as input *)

\* 16-byte TPIU frames (byte 15 holds the low bits and the delay flags):
\* stream 1 at once then stream 2 delayed (scenario S6); data only; a short
\* sync at the start of the frame; a stream change and then a long sync in
\* mid-frame; a sync that is never terminated; a delayed marker in byte 14;
\* changes to stream 1, back to 0, and to 1 again delayed.  The payload bytes
\* are ITM writes 0x19 0xAA and local timestamps 0x50.  The last fragment is
\* twelve bytes of data, which shifts the frame boundary.
TpiuChunks ==
    { Bytes(<<3, 25, 5, 170, 24, 170, 24, 170, 24, 170, 24, 170, 24, 170, 24, 254>>),
      Bytes(<<24, 170, 24, 170, 24, 170, 24, 170, 24, 170, 24, 170, 24, 170, 80, 127>>),
      Bytes(<<255, 127, 3, 25, 170, 25, 170, 25, 170, 25, 170, 25, 170, 25, 170, 0>>),
      Bytes(<<80, 80, 3, 25, 255, 255, 255, 127, 170, 25, 170, 25, 170, 25, 170, 0>>),
      Bytes(<<3, 25, 255, 17, 32, 255, 170, 25, 170, 25, 170, 25, 170, 25, 170, 0>>),
      Bytes(<<24, 170, 24, 170, 24, 170, 24, 170, 24, 170, 24, 170, 24, 170, 5, 255>>),
      Bytes(<<24, 170, 3, 25, 1, 80, 80, 80, 3, 80, 24, 170, 24, 170, 24, 241>>),
      Bytes(<<3, 25, 170, 25, 170, 25, 170, 25, 170, 25, 170, 0>>) }

\* the initial skews tried: none, and the one the twelve-byte fragment completes
Offsets == {0, 4}

InitTPIU ==
    /\ InitCommon
    /\ decode_style = "All" /\ port = 0
    /\ TPIU_stream = 1
    /\ TPIU_offset \in Offsets
    /\ tpiu_decode_style \in {"All", "Stream"}
    /\ stream = 1
    /\ offset = TPIU_offset
    /\ chunks = TpiuChunks

SpecTPIU == InitTPIU /\ [][DecodeTPIU]_vars

InitStack ==
    /\ InitCommon
    /\ decode_style = "All" /\ port = 0
    /\ TPIU_stream \in {0, 1}
    /\ TPIU_offset \in Offsets
    /\ tpiu_decode_style = "All" /\ stream = 1 /\ offset = 0
    /\ chunks = TpiuChunks

SpecStack == InitStack /\ [][DecodeITMDWT]_vars

-----------------------------------------------------------------------------
(* Specification SpecConsole: ITM writes of 1, 2 and 4 bytes in Console style *)

\* writes to port 0 of 'H', 'i', LF, NUL and 0x01 in packets of each size, and
\* a write of 'A' to port 1
ConsoleChunks ==
    { Bytes(<<1, 72>>), Bytes(<<1, 105>>), Bytes(<<1, 10>>), Bytes(<<1, 0>>),
      Bytes(<<1, 1>>), Bytes(<<2, 72, 105>>), Bytes(<<2, 10, 72>>),
      Bytes(<<3, 72, 105, 10, 0>>), Bytes(<<9, 65>>) }

InitConsole ==
    /\ InitCommon
    /\ decode_style = "Console"
    /\ port = 0
    /\ TPIU_stream = 0 /\ TPIU_offset = 0
    /\ tpiu_decode_style = "All" /\ stream = 1 /\ offset = 0
    /\ chunks = ConsoleChunks

SpecConsole == InitConsole /\ [][DecodeITMDWT]_vars

-----------------------------------------------------------------------------
(* Specification SpecStream: TPIU frames with stream changes and no sync *)

\* scenario S6 (stream 1 at once, stream 2 delayed); data only; a delayed
\* marker in byte 14; changes to stream 1, back to 0 and to 1 again delayed
StreamChunks ==
    { Bytes(<<3, 25, 5, 170, 24, 170, 24, 170, 24, 170, 24, 170, 24, 170, 24, 254>>),
      Bytes(<<24, 170, 24, 170, 24, 170, 24, 170, 24, 170, 24, 170, 24, 170, 80, 127>>),
      Bytes(<<24, 170, 24, 170, 24, 170, 24, 170, 24, 170, 24, 170, 24, 170, 5, 255>>),
      Bytes(<<24, 170, 3, 25, 1, 80, 80, 80, 3, 80, 24, 170, 24, 170, 24, 241>>) }

InitStream ==
    /\ InitCommon
    /\ decode_style = "All" /\ port = 0
    /\ TPIU_stream = 1 /\ TPIU_offset = 0
    /\ tpiu_decode_style = "All" /\ stream = 1 /\ offset = 0
    /\ chunks = StreamChunks

SpecStream == InitStream /\ [][DecodeTPIU]_vars

-----------------------------------------------------------------------------
(* Specification SpecPacket: packets of every kind, in every decode style *)

\* writes to port 0 ('H', LF; a record head, field and tail), a write to
\* port 1, page directives 1 and 7, sync, an extension with SH set, DWT
\* packets of 4, 2 and 1 bytes, an extension and a local timestamp with
\* continuation bytes, overflow
PacketChunks ==
    { Bytes(<<1, 72>>), Bytes(<<1, 10>>), Bytes(<<2, 255, 1>>),
      Bytes(<<3, 239, 190, 173, 222>>), Bytes(<<1, 255>>), Bytes(<<9, 65>>),
      Bytes(<<24>>), Bytes(<<120>>), Bytes(<<0>>), Bytes(<<12>>),
      Bytes(<<23, 1, 2, 3, 132>>), Bytes(<<14, 15, 16>>), Bytes(<<5, 0>>),
      Bytes(<<200, 1>>), Bytes(<<192, 133, 5>>), Bytes(<<112>>) }

InitPacket ==
    /\ InitCommon
    /\ decode_style \in DecodeStyles
    /\ port = 0
    /\ TPIU_stream = 0 /\ TPIU_offset = 0
    /\ tpiu_decode_style = "All" /\ stream = 1 /\ offset = 0
    /\ chunks = PacketChunks

SpecPacket == InitPacket /\ [][DecodeITMDWT]_vars

-----------------------------------------------------------------------------
(* Specification SpecSkew: every startup offset, frames without sync *)

\* scenario S6; data only; stream changes in mid-frame; a short fragment.  No
\* byte is 0xFF (no sync starts wherever the skew puts it) and none is 0x00 or
\* 0x01 (the values a prefilled entry would be listed as).
SkewChunks ==
    { Bytes(<<3, 25, 5, 170, 24, 170, 24, 170, 24, 170, 24, 170, 24, 170, 24, 254>>),
      Bytes(<<24, 170, 24, 170, 24, 170, 24, 170, 24, 170, 24, 170, 24, 170, 80, 127>>),
      Bytes(<<24, 170, 3, 25, 5, 80, 80, 80, 3, 80, 24, 170, 24, 170, 24, 241>>),
      Bytes(<<25, 170, 5, 80, 26>>) }

\* offset = NumberSetting(min_value=0, max_value=15)
AllOffsets == 0..15

InitSkew ==
    /\ InitCommon
    /\ decode_style = "All" /\ port = 0
    /\ TPIU_stream = 1
    /\ TPIU_offset \in AllOffsets
    /\ tpiu_decode_style = "All" /\ stream = 1
    /\ offset = TPIU_offset
    /\ chunks = SkewChunks

SpecSkew == InitSkew /\ [][DecodeTPIU]_vars

-----------------------------------------------------------------------------
(* Specification SpecCont: packets with continuation bytes, cut at every     *)
(* length                                                                    *)

\* a header byte followed by k payload bytes 0x81 (bit 7 set)
Continued(hdrbyte, k) == Bytes(<<hdrbyte>> \o [i \in 1..k |-> 129])

\* a multi-byte local timestamp (0xC0), GTS1 (0x94), GTS2 (0xB4) and an
\* extension with continuation (0xD8), each left unterminated after k payload
\* bytes; 4-byte ITM and DWT packets begun; and the single bytes 0x05 (bit 7
\* clear) and 0x81 (bit 7 set) that end or prolong whatever is open
ContChunks ==
    { Continued(192, k) : k \in {0, 1, 3, 4} }
    \cup { Continued(148, k) : k \in {0, 1, 3, 4} }
    \cup { Continued(180, k) : k \in {0, 1, 3, 5, 6} }
    \cup { Continued(216, k) : k \in {0, 1, 3, 4} }
    \cup { Continued(3, k) : k \in {0, 2} }
    \cup { Continued(7, k) : k \in {0, 2} }
    \cup { Bytes(<<5>>), Bytes(<<129>>) }

InitCont ==
    /\ InitCommon
    /\ decode_style = "All"
    /\ port = 0
    /\ TPIU_stream = 0 /\ TPIU_offset = 0
    /\ tpiu_decode_style = "All" /\ stream = 1 /\ offset = 0
    /\ chunks = ContChunks

SpecCont == InitCont /\ [][DecodeITMDWT]_vars

-----------------------------------------------------------------------------
(* Specification SpecSync: TPIU frames with synchronisation sequences       *)

\* 16-byte frames: data only; a short sync (FF 7F) and a full sync
\* (FF FF FF 7F) at the start of the frame; a stream change and then a full
\* sync in mid-frame; a sync that is never terminated; a sync with a wrong
\* byte in it that is then terminated; and a twelve-byte fragment that
\* shifts what follows by four
SyncChunks ==
    { Bytes(<<24, 170, 24, 170, 24, 170, 24, 170, 24, 170, 24, 170, 24, 170, 80, 127>>),
      Bytes(<<255, 127, 3, 25, 170, 25, 170, 25, 170, 25, 170, 25, 170, 25, 170, 0>>),
      Bytes(<<255, 255, 255, 127, 3, 25, 170, 26, 170, 27, 170, 28, 170, 29, 170, 0>>),
      Bytes(<<80, 80, 3, 25, 255, 255, 255, 127, 170, 25, 170, 25, 170, 25, 170, 0>>),
      Bytes(<<3, 25, 255, 17, 32, 255, 170, 25, 170, 25, 170, 25, 170, 25, 170, 0>>),
      Bytes(<<3, 25, 255, 17, 255, 127, 170, 25, 170, 25, 170, 25, 170, 25, 170, 0>>),
      Bytes(<<3, 25, 170, 25, 170, 25, 170, 25, 170, 25, 170, 0>>) }

InitSync ==
    /\ InitCommon
    /\ decode_style = "All" /\ port = 0
    /\ TPIU_stream = 1
    /\ TPIU_offset \in Offsets
    /\ tpiu_decode_style \in {"All", "Stream"}
    /\ stream = 1
    /\ offset = TPIU_offset
    /\ chunks = SyncChunks

SpecSync == InitSync /\ [][DecodeTPIU]_vars

-----------------------------------------------------------------------------
(* Specification SpecSyncSkew: every startup offset, frames with sync       *)

\* the frames of SpecSync; the skew comes from the offset, so the fragment
\* that shifts is left out, and of the two syncs at the start of a frame the
\* short one is kept
SyncSkewChunks ==
    SyncChunks \ { Bytes(<<255, 255, 255, 127, 3, 25, 170, 26, 170, 27, 170, 28, 170, 29, 170, 0>>),
                   Bytes(<<3, 25, 170, 25, 170, 25, 170, 25, 170, 25, 170, 0>>) }

InitSyncSkew ==
    /\ InitCommon
    /\ decode_style = "All" /\ port = 0
    /\ TPIU_stream = 1
    /\ TPIU_offset \in AllOffsets
    /\ tpiu_decode_style = "All"
    /\ stream = 1
    /\ offset = TPIU_offset
    /\ chunks = SyncSkewChunks

SpecSyncSkew == InitSyncSkew /\ [][DecodeTPIU]_vars

-----------------------------------------------------------------------------
(* Specification SpecPass: the frames of SpecStream, and one that leaves    *)
(* the selected stream and comes back to it                                 *)

\* stream 1 'A', stream 2 'B', stream 1 'C' and on, every marker immediate
PassChunks ==
    StreamChunks
    \cup { Bytes(<<3, 65, 5, 66, 3, 67, 16, 17, 16, 17, 16, 17, 16, 17, 16, 0>>) }

InitPass ==
    /\ InitCommon
    /\ decode_style = "All" /\ port = 0
    /\ TPIU_stream = 1 /\ TPIU_offset = 0
    /\ tpiu_decode_style = "All" /\ stream = 1 /\ offset = 0
    /\ chunks = PassChunks

SpecPass == InitPass /\ [][DecodeTPIU]_vars

-----------------------------------------------------------------------------
(* Claims *)

\* the bytes of the input events consumed so far
InputBytes == [i \in 1..Len(inp) |-> inp[i].data.data[1]]

\* all the frames the analyzer has returned so far, in emission order
Emitted == Flatten(outs)

\* C1: whenever a PktCtx.run call returns an err frame (unrecognised global
\* timestamp header, unterminated LTS/GTS1/GTS2 continuation, reassembler
\* error), the parser's fsm is HDR when the call returns.
C1_StateRecovery ==
    \A i \in 1..Len(out) : out[i].type = "err" => ctx.fsm = "HDR"

\* an unterminated GTS2 continuation has just been reported
C1_Witness ==
    /\ Len(out) = 1
    /\ out[1].type = "err"
    /\ out[1].data.val = "Global TimeStamp2 Continuation"
    /\ fsms[Len(fsms)] = "GTS2"

\* C5: of any two frames an analyzer emits, the one emitted earlier ends no
\* later than the one emitted later.
C5_EndTimesMonotonic ==
    \A i, j \in 1..Len(Emitted) :
        i < j => Emitted[i].end_time <= Emitted[j].end_time

\* C6: every emitted frame has a defined start time, start <= end, and a frame
\* other than an err frame spans the input byte whose consumption completed it.
C6_SpanDefinedAndCovers ==
    \A i \in 1..Len(out) :
        /\ out[i].start_time # None
        /\ out[i].start_time <= out[i].end_time
        /\ out[i].type # "err" =>
              /\ out[i].start_time <= inp[Len(inp)].start_time
              /\ out[i].end_time >= inp[Len(inp)].end_time

\* C7: decoding an input event whose error entry is set changes no parser,
\* deframer, grouper or reassembler state and emits no frame.
C7_ErrorEventSkipped ==
    [][(Len(inp') = Len(inp) + 1 /\ "error" \in DOMAIN inp'[Len(inp')].data)
          => (ctx' = ctx /\ tpiu' = tpiu /\ out' = <<>>)]_vars

\* exactly one frame has been emitted in total, an itm frame with this text
OnlyItmFrame(text) ==
    /\ Len(Emitted) = 1
    /\ Emitted[1].type = "itm"
    /\ Emitted[1].data.val = text

\* C8 as stated: style All, TPIU bypassed, input 0x0B 0xAA: exactly one frame,
\* itm "Port#3 Size#1 Data#AA", and the parser back in HDR.
C8_Original ==
    (decode_style = "All" /\ TPIU_stream = 0 /\ InputBytes = <<11, 170>>)
        => (OnlyItmFrame("Port#3 Size#1 Data#AA") /\ ctx.fsm = "HDR")

\* C8 amended: the same for the input 0x19 0xAA, the header of a 1-byte write
\* to port 3 (0x0B is the header of a 4-byte write to port 1).
C8_Scenario1 ==
    (decode_style = "All" /\ TPIU_stream = 0 /\ InputBytes = <<25, 170>>)
        => (OnlyItmFrame("Port#3 Size#1 Data#AA") /\ ctx.fsm = "HDR")

\* the amended scenario S1 has been fed
C8_Witness ==
    decode_style = "All" /\ TPIU_stream = 0 /\ InputBytes = <<25, 170>> /\ Len(out) = 1

\* C9 as stated: style All, input 0x18 0xC1 0xDE 0xAD 0xBE 0xEF: page 1 after
\* the first byte, and exactly one frame, itm "Port#56 Size#4 Data#EFBEADDE".
C9_Original ==
    decode_style = "All" =>
        /\ InputBytes = <<24>> => ctx.ipage = 1
        /\ InputBytes = <<24, 193, 222, 173, 190, 239>>
              => OnlyItmFrame("Port#56 Size#4 Data#EFBEADDE")

\* C9 amended: the same for the input 0x18 0xC3 0xDE 0xAD 0xBE 0xEF, whose
\* second byte is the header of a 4-byte write to port 24 (0xC1 is a 1-byte one).
C9_Scenario2 ==
    decode_style = "All" =>
        /\ InputBytes = <<24>> => ctx.ipage = 1
        /\ InputBytes = <<24, 195, 222, 173, 190, 239>>
              => OnlyItmFrame("Port#56 Size#4 Data#EFBEADDE")

\* the amended scenario S2 has been fed
C9_Witness ==
    decode_style = "All" /\ InputBytes = <<24, 195, 222, 173, 190, 239>> /\ Len(out) = 1

\* the reason the claim gives for a function code
ExcReason(fn) ==
    IF fn = 1 THEN "ENTERED" ELSE IF fn = 2 THEN "EXITED"
    ELSE IF fn = 3 THEN "RESUMED" ELSE "RESERVED"

\* C10: a 2-byte DWT packet with discriminator 1 (header 0x0E, payload b0 b1),
\* in a style other than Console, emits nothing on its first two bytes and one
\* dwt frame " EXC n REASON" on the third, with n = pdata & 0x1FF and REASON by
\* (pdata >> 12) & 3; the input 0x0E 0x0F 0x10 yields " EXC 15 ENTERED".
C10_DwtException ==
    LET n == Len(inp) IN
    (n >= 3 /\ fsms[n - 2] = "HDR" /\ InputBytes[n - 2] = 14 /\ decode_style # "Console")
        => LET b0 == InputBytes[n - 1]
               b1 == InputBytes[n]
               pd == b0 + (256 * b1)
           IN  /\ outs[n - 2] = <<>>
               /\ outs[n - 1] = <<>>
               /\ Len(out) = 1
               /\ out[1].type = "dwt"
               /\ out[1].data.val
                    = " EXC " \o FormatD(pd % 512) \o " " \o ExcReason((pd \div 4096) % 4)
               /\ (b0 = 15 /\ b1 = 16) => out[1].data.val = " EXC 15 ENTERED"

\* scenario S3 has been fed to a fresh parser in style All
C10_Witness ==
    /\ decode_style = "All" /\ InputBytes = <<14, 15, 16>>
    /\ Len(out) = 1 /\ out[1].type = "dwt"

\* the packets n-k-1 .. n of the history are a well-formed record of k words
\* with sequence number ss
RecordEndsAt(n, k, ss) ==
    /\ n >= k + 2
    /\ inp[n - k - 1] = [inp[n - k - 1] EXCEPT !.size = 2,
                                                !.pdata = IntBits((256 * k) + ss)]
    /\ \A i \in 1..k : inp[n - k - 1 + i].size = 4
    /\ inp[n].size = 1
    /\ inp[n].pdata = IntBits(ss)

RECURSIVE WordsHex(_, _, _)
\* " 8000000i" for each of the words from packet `from` to packet `to`
WordsHex(pkts, from, to) ==
    IF from > to THEN ""
    ELSE " 8000000" \o HexDigits[BitsVal(pkts[from].pdata \ {31}) + 1]
         \o WordsHex(pkts, from + 1, to)

RECURSIVE ConsoleCount(_, _, _)
\* the number of console frames returned by the calls `from` .. `to`
ConsoleCount(results, from, to) ==
    IF from > to THEN 0
    ELSE Cardinality({i \in 1..Len(results[from]) : results[from][i].type = "console"})
         + ConsoleCount(results, from + 1, to)

\* C3: from any reassembler state, a size-2 head with field count N and
\* sequence SS, then N size-4 data packets, then a size-1 tail with the same
\* SS emit exactly one console frame over those N+2 packets, at the tail,
\* whose text lists the N data words as hex in arrival order.
C3_RecordIdempotence ==
    LET n == Len(inp) IN
    \A k \in 0..MaxWords : \A ss \in SeqNums :
        RecordEndsAt(n, k, ss) =>
            /\ ConsoleCount(outs, n - k - 1, n) = 1
            /\ Len(out) = 1
            /\ out[1].type = "console"
            /\ \E prefix \in {"", "[Missed packets] "} :
                  out[1].data.val
                     = prefix \o "Seq#" \o (IF ss = 255 THEN "FF" ELSE "00")
                         \o WordsHex(inp, n - k, n - 1)

\* a record of MaxWords words has just been closed, opened while an earlier
\* record was still open and words of it were held
C3_Witness ==
    LET n == Len(inp) IN
    /\ RecordEndsAt(n, MaxWords, 0)
    /\ n > MaxWords + 3
    /\ inp[n - MaxWords - 2].size = 4
    /\ Len(outs[n - MaxWords - 1]) = 1

\* C2: no ITMDWT.decode call raises, in bypass or in passthrough; every frame
\* the deframer hands to PktCtx.run can be consumed by the parser as a byte.
C2_NeverAborts ==
    /\ ~aborted
    /\ \A i \in 1..Len(handed) : HasDataByte(handed[i])

\* the value of a hex digit
HexVal(c) == (CHOOSE i \in 1..16 : HexDigits[i] = c) - 1

RECURSIVE ParseHexBytes(_)
\* the bytes a text " XX XX ..." lists
ParseHexBytes(text) ==
    IF Len(text) < 3 THEN <<>>
    ELSE <<(16 * HexVal(SubSeq(text, 2, 2))) + HexVal(SubSeq(text, 3, 3))>>
         \o ParseHexBytes(SubSeq(text, 4, Len(text)))

RECURSIVE StreamBytes(_, _)
\* the payload bytes listed by those of the frames fs that are tpiu frames of
\* stream s ("Stream<s>: XX XX ..."), concatenated in emission order
StreamBytes(fs, s) ==
    IF fs = <<>> THEN <<>>
    ELSE LET f == Head(fs)
             prefix == "Stream" \o FormatD(s) \o ":"
             n == Len(prefix)
         IN  (IF f.type = "tpiu" /\ Len(f.data.val) >= n /\ SubSeq(f.data.val, 1, n) = prefix
              THEN ParseHexBytes(SubSeq(f.data.val, n + 1, Len(f.data.val)))
              ELSE <<>>)
             \o StreamBytes(Tail(fs), s)

RECURSIVE DataBytes(_)
\* the byte values of those of the frames fs that are data frames, in order
DataBytes(fs) ==
    IF fs = <<>> THEN <<>>
    ELSE (IF Head(fs).type = "data" THEN Head(fs).data.data ELSE <<>>)
         \o DataBytes(Tail(fs))

\* C4: on the same input and offset, the byte values of the data frames of a
\* Saleae-style deframer with stream filter s, concatenated, equal the payload
\* bytes listed in the tpiu frames for stream s of an All-style deframer.
C4_PassthroughEqualsAll ==
    tpiu_decode_style = "All"
        => DataBytes(handed) = StreamBytes(Flatten(touts), TPIU_stream)

\* a frame that changes stream in mid-frame has been processed and passed
\* bytes of the selected stream through
C4_Witness ==
    /\ tpiu_decode_style = "All"
    /\ Len(tout) >= 2
    /\ \E i \in 1..Len(tout) : tout[i].data.val = "Stream1: 19 AA"
    /\ Len(DataBytes(handed)) >= 2

RECURSIVE PortPayload(_, _)
\* the input events that carry the payload bytes of the complete ITM writes
\* to port p, for an input made of software source packets only
PortPayload(evs, p) ==
    IF evs = <<>> THEN <<>>
    ELSE LET h    == Head(evs).data.data[1]
             size == IF h % 4 = 3 THEN 4 ELSE h % 4
             rest == Tail(evs)
         IN  IF Len(rest) < size THEN <<>>
             ELSE (IF h \div 8 = p THEN SubSeq(rest, 1, size) ELSE <<>>)
                  \o PortPayload(SubSeq(rest, size + 1, Len(rest)), p)

RECURSIVE Messages(_, _, _)
\* the console messages the payload events evs spell: for each terminator the
\* printable text since the previous one, the start of the event that carried
\* its first printable byte (None when there is none) and the end of the
\* event that carried the terminator
Messages(evs, text, start) ==
    IF evs = <<>> THEN <<>>
    ELSE LET e == Head(evs)
             b == e.data.data[1]
         IN  IF b = 10 \/ b = 0
             THEN <<[text |-> text, start |-> start, end |-> e.end_time]>>
                  \o Messages(Tail(evs), "", None)
             ELSE IF IsPrintable(b)
             THEN Messages(Tail(evs), text \o Chr(b),
                           IF start = None THEN e.start_time ELSE start)
             ELSE Messages(Tail(evs), text, start)

\* C11: in Console style each terminator byte (0x0A or 0x00) written to the
\* selected port, in a packet of any size, emits exactly one console frame
\* whose text is the printable bytes since the previous terminator and whose
\* span runs from the start of the first byte of the message to the end of
\* the terminator byte.
C11_ConsoleGrouping ==
    LET ms == Messages(PortPayload(inp, port), "", None)
    IN  /\ Len(Emitted) = Len(ms)
        /\ \A i \in 1..Len(ms) :
             /\ Emitted[i].type = "console"
             /\ Emitted[i].data.val = ms[i].text
             /\ Emitted[i].end_time = ms[i].end
             /\ ms[i].start # None => Emitted[i].start_time = ms[i].start

RECURSIVE Attribution(_, _, _, _)
\* the payload bytes of the complete 16-byte frames of the byte sequence bs,
\* from position i on, each with the stream the marker rule gives it: a
\* marker with its flag clear changes the stream at once, a marker with its
\* flag set changes it after the following odd byte
Attribution(bs, i, active, pending) ==
    LET base == ((i - 1) \div 16) * 16
        idx  == (i - 1) % 16
    IN  IF base + 16 > Len(bs) THEN <<>>
        ELSE LET b      == bs[i]
                 flag   == BitAt(bs[base + 16], idx \div 2)
                 marker == (b % 2 = 1) /\ (b \div 2 # active)
             IN  IF idx = 15
                 THEN Attribution(bs, i + 1, IF pending # None THEN pending ELSE active, None)
                 ELSE IF idx % 2 = 1
                 THEN <<[stream |-> active, byte |-> b]>>
                      \o Attribution(bs, i + 1, IF pending # None THEN pending ELSE active, None)
                 ELSE IF b % 2 = 0
                 THEN <<[stream |-> active, byte |-> b + flag]>>
                      \o Attribution(bs, i + 1, active, pending)
                 ELSE IF marker /\ flag = 1
                 THEN Attribution(bs, i + 1, active, b \div 2)
                 ELSE IF marker
                 THEN Attribution(bs, i + 1, b \div 2, None)
                 ELSE Attribution(bs, i + 1, active, pending)

RECURSIVE OfStream(_, _)
\* the bytes that the attribution at gives stream s, in order
OfStream(at, s) ==
    IF at = <<>> THEN <<>>
    ELSE (IF Head(at).stream = s THEN <<Head(at).byte>> ELSE <<>>) \o OfStream(Tail(at), s)

\* the stream ids the fragments use
StreamIds == {0, 1, 2}

\* C12: a stream marker whose flag bit in byte 15 is set leaves the following
\* odd byte with the previous stream and gives all later payload bytes to the
\* new stream; with the flag clear the following byte and all later bytes go
\* to the new stream.  So the bytes an All-style deframer lists for each
\* stream are exactly the bytes this rule gives that stream.
C12_StreamChange ==
    Len(inp) % 16 = 0
        => \A s \in StreamIds :
              StreamBytes(Flatten(touts), s) = OfStream(Attribution(InputBytes, 1, 0, None), s)

\* the parser is about to consume the last payload byte of an ITM packet
ItmCompleting ==
    /\ ctx # Null
    /\ \/ ctx.fsm = "ITM1" /\ ctx.size = 1
       \/ ctx.fsm = "ITM2" /\ ctx.size = 2
       \/ ctx.fsm = "ITM4"

\* C13: in styles Port, Console and Instrumentation a completed ITM packet
\* whose address ipage*32 + pcode is not the configured port emits nothing and
\* leaves the console grouper and the reassembler as they were; in style All
\* every completed ITM packet emits exactly one itm frame.
C13_PortFiltering ==
    [][ (ItmCompleting /\ inp' # inp)
          => /\ (decode_style # "All" /\ Paddr(ctx) # port)
                  => /\ out' = <<>>
                     /\ ctx'.conctx = ctx.conctx
                     /\ ctx'.instrumentation = ctx.instrumentation
             /\ decode_style = "All"
                  => /\ Len(out') = 1
                     /\ out'[1].type = "itm" ]_vars

\* a write to another address has just been dropped while a record is open
\* in the reassembler or text is pending in the console grouper
C13_Witness ==
    /\ ctx # Null /\ ctx.fsm = "HDR" /\ fsms # <<>>
    /\ fsms[Len(fsms)] = "ITM1" /\ ctx.size = 1
    /\ Paddr(ctx) # port
    /\ out = <<>>
    /\ \/ decode_style = "Instrumentation" /\ ctx.instrumentation # Null
                                           /\ ctx.instrumentation.sequence # 256
       \/ decode_style = "Console" /\ ctx.conctx # Null /\ ctx.conctx.ctext # ""

RECURSIVE AfterColon(_)
\* the text after the first colon of text
AfterColon(text) ==
    IF Len(text) = 0 THEN text
    ELSE IF SubSeq(text, 1, 1) = ":" THEN SubSeq(text, 2, Len(text))
    ELSE AfterColon(SubSeq(text, 2, Len(text)))

\* the values a prefilled entry (0x00, None, None) would be listed as, with
\* either value of its bit in byte 15
DummyValues == {0, 1}

\* C14: with offset k the first frame is processed after exactly 16-k input
\* bytes and every later one after 16 more (no sync in the input); the k
\* prefilled entries never appear as payload of a tpiu or data frame; the
\* real bytes of the first frame sit at frame positions k..15.
C14_StartupSkew ==
    tpiu_ctx # Null =>
        /\ tpiu_ctx.bidx = (offset + Len(inp)) % TPIU_FRAME_LEN
        /\ (tout # <<>>) <=> ((offset + Len(inp)) % TPIU_FRAME_LEN = 0)
        /\ \A i \in 1..Len(touts) : \A j \in 1..Len(touts[i]) :
              LET payload == ParseHexBytes(AfterColon(touts[i][j].data.val))
              IN  \A n \in 1..Len(payload) : payload[n] \notin DummyValues
        /\ \A i \in 1..Len(handed) :
              /\ handed[i].start_time # None /\ handed[i].end_time # None
              /\ handed[i].data.data[1] \notin DummyValues
        /\ Len(inp) <= TPIU_FRAME_LEN - offset
              => tpiu_ctx.packet
                   = [i \in 1..offset |-> <<0, None, None>>]
                     \o [i \in 1..Len(inp) |->
                           <<inp[i].data.data[1], inp[i].start_time, inp[i].end_time>>]

\* a first frame of 11 prefilled entries and 5 real bytes has been processed,
\* and the frame after it
C14_Witness ==
    /\ offset = 11
    /\ Len(inp) = 21
    /\ tout # <<>>
    /\ Len(touts[5]) >= 1

RECURSIVE LittleEndian(_, _, _)
\* the bits of the little-endian combination of the bytes of events from..to
LittleEndian(evs, from, to) ==
    IF from > to THEN {}
    ELSE IntBits(evs[from].data.data[1]) \cup Shl(LittleEndian(evs, from + 1, to), 8)

\* C15: a header with b[1:0] in {01,10,11} consumed in HDR sets size to 1, 2
\* or 4; the parser then consumes exactly size payload bytes, in states ITM1..
\* or DWT1.. in turn, emits nothing on the first size-1 of them, has pdata
\* equal to the little-endian combination of exactly those bytes when the
\* last is consumed, and is in HDR afterwards.
C15_SourceAccumulation ==
    /\ (ctx # Null /\ ctx.fsm \in {"ITM1", "ITM2", "ITM3", "ITM4",
                                   "DWT1", "DWT2", "DWT3", "DWT4"})
          => ctx.size \in {1, 2, 4}
    /\ \A i \in 1..Len(inp) :
         LET h    == inp[i].data.data[1]
             size == HdrSize(h % 4)
             kind == IF BitAt(h, 2) = 1 THEN "DWT" ELSE "ITM"
         IN  (fsms[i] = "HDR" /\ h % 4 # 0) =>
               /\ size \in {1, 2, 4}
               /\ \A j \in 1..size :
                    (i + j <= Len(inp)) =>
                       /\ fsms[i + j] = kind \o FormatD(j)
                       /\ j < size => outs[i + j] = <<>>
               /\ (i + size < Len(inp)) => fsms[i + size + 1] = "HDR"
               /\ (i < Len(inp) /\ i + size > Len(inp)) =>
                       /\ ctx.fsm = kind \o FormatD(Len(inp) - i + 1)
                       /\ ctx.size = size
               /\ (i + size = Len(inp)) =>
                       /\ ctx.fsm = "HDR"
                       /\ ctx.size = size
                       /\ ctx.pdata = LittleEndian(inp, i + 1, i + size)

\* the fourth payload byte of a 4-byte DWT packet has just been consumed,
\* after another packet
C15_Witness ==
    /\ Len(inp) >= 7
    /\ fsms[Len(fsms)] = "DWT4"
    /\ fsms[Len(fsms) - 4] = "HDR"
    /\ ctx.fsm = "HDR"
    /\ ctx.pdata = IntBits(1) \cup Shl(IntBits(2), 8) \cup Shl(IntBits(3), 16)
                     \cup Shl(IntBits(132), 24)

\* a stimulus-port page directive: bit 3 set, bit 7 clear, SH clear, b[1:0] = 00
IsPageDirective(db) ==
    /\ BitAt(db, 3) = 1 /\ BitAt(db, 7) = 0 /\ BitAt(db, 2) = 0 /\ db % 4 = 0

\* C16: ipage is always in 0..7 and the address ipage*32 + pcode in 0..255;
\* ipage becomes b[6:4] exactly when a page directive is consumed in HDR,
\* becomes 0 exactly when 0x00 is consumed in HDR, and is left as it was by
\* every other byte in every state.
C16_PageLifecycle ==
    [][ inp' # inp =>
          LET db    == inp'[Len(inp')].data.data[1]
              inHdr == (ctx = Null) \/ (ctx.fsm = "HDR")
              page  == IF ctx = Null THEN 0 ELSE ctx.ipage
          IN  /\ ctx'.ipage \in 0..7
              /\ Paddr(ctx') \in 0..255
              /\ ctx'.ipage = IF inHdr /\ IsPageDirective(db) THEN (db \div 16) % 8
                              ELSE IF inHdr /\ db = 0 THEN 0
                              ELSE page ]_vars

\* page 7 was set, a packet whose payload byte has the value of a directive
\* was consumed in between, and the page is still 7
C16_Witness ==
    /\ ctx # Null /\ ctx.ipage = 7
    /\ Len(inp) >= 3
    /\ fsms[Len(fsms)] = "ITM1"
    /\ IsPageDirective(inp[Len(inp)].data.data[1])
    /\ ctx.fsm = "HDR"

\* C17 as stated: at the entry of every PktCtx.run call, fsm == HDR if and
\* only if pdata == 0.
C17_Original ==
    [][ (inp' # inp /\ ctx # Null)
          => ((ctx.fsm = "HDR") <=> (ctx.pdata = {})) ]_vars

\* C17 as amended: at the entry of every PktCtx.run call that consumes the
\* first payload byte of a packet (fsm ITM1 or DWT1, or LTS, GTS1 or GTS2 with
\* byte counter 0), pdata == 0.
C17_FreshAccumulator ==
    [][ (inp' # inp /\ ctx # Null
           /\ \/ ctx.fsm \in {"ITM1", "DWT1"}
              \/ ctx.fsm \in {"LTS", "GTS1", "GTS2"} /\ ctx.size = 0)
          => ctx.pdata = {} ]_vars

\* a header has just opened a packet right after a packet with payload 0xFF
C17_Witness ==
    /\ Len(inp) >= 3
    /\ ctx.fsm \in {"ITM1", "DWT1", "LTS", "GTS1", "GTS2"}
    /\ ctx.pdata = {}
    /\ fsms[Len(fsms)] = "HDR"
    /\ fsms[Len(fsms) - 1] = "ITM1"
    /\ inp[Len(inp) - 1].data.data[1] = 255
    /\ feed # <<>>

\* C18: in every reachable reassembler state seen_words (num_words) is at
\* most expected_words (rec_words) + 1.
C18_OverrunBound == inst.num_words <= inst.rec_words + 1

\* the packet of the call being made, and the sequence number it carries
ThisPacket == inp'[Len(inp')]
ThisSnum == BitsVal(LowBits(ThisPacket.pdata, 8))

\* C19: every size-1 tail emits exactly one frame: an err frame "Seq#
\* mismatch" if its sequence number differs from the expected one (always so
\* when the reassembler is idle), a console frame otherwise; afterwards the
\* expected sequence is idle and the last sequence is the tail's number.
C19_TailOutcome ==
    [][ (inp' # inp /\ ThisPacket.size = 1) =>
          /\ Len(out') = 1
          /\ (ThisSnum # inst.sequence) =>
                /\ out'[1].type = "err"
                /\ SubSeq(out'[1].data.val, 1, 13) = "Seq# mismatch"
          /\ (ThisSnum = inst.sequence) => out'[1].type = "console"
          /\ (inst.sequence = 256) => out'[1].type = "err"
          /\ inst'.sequence = 256
          /\ inst'.lastseq = ThisSnum ]_vars

\* a tail has just closed, with a mismatch, a record opened under the other
\* sequence number, after an earlier tail
C19_Witness ==
    /\ Len(inp) >= 3
    /\ inp[Len(inp)].size = 1
    /\ inp[Len(inp) - 1].size = 2
    /\ inp[Len(inp) - 2].size = 1
    /\ inp[Len(inp)].pdata # LowBits(inp[Len(inp) - 1].pdata, 8)
    /\ Len(out) = 1 /\ out[1].type = "err"
    /\ inst.sequence = 256
    /\ inst.lastseq = BitsVal(inp[Len(inp)].pdata)

\* the sequence number of the last tail among the packets pkts, 0 when none
LastTailSeq(pkts) ==
    LET tails == {i \in 1..Len(pkts) : pkts[i].size = 1}
    IN  IF tails = {} THEN 0
        ELSE BitsVal(LowBits(pkts[CHOOSE i \in tails : \A j \in tails : j <= i].pdata, 8))

RECURSIVE DvectorHex(_, _)
\* " 8000000i" for each word of dv from entry idx on
DvectorHex(dv, idx) ==
    IF idx > Len(dv) THEN ""
    ELSE " 8000000" \o HexDigits[BitsVal(dv[idx] \ {31}) + 1] \o DvectorHex(dv, idx + 1)

OpenHead(pkts) ==
    LET heads == {i \in 1..Len(pkts) : pkts[i].size = 2}
        h == CHOOSE i \in heads : \A j \in heads : j <= i
    IN  IF heads = {} THEN 0
        ELSE IF \A j \in (h + 1)..Len(pkts) : pkts[j].size = 4 THEN h ELSE 0

\* C21: a size-2 head received while a record is open emits exactly one err
\* frame "Partial record for seq# XX" that names the open record's sequence
\* number and spans from the start of that record's head to the end of the
\* last packet accepted into it; a head received while idle emits nothing.
\* Either way the new record is open afterwards: sequence and field count
\* from the new head, no words seen, dvector empty.
C21_PrematureHead ==
    [][ (inp' # inp /\ ThisPacket.size = 2) =>
          LET h == OpenHead(inp)
          IN  /\ (h # 0) =>
                    out' = <<AnalyzerFrame("err", inp[h].start_time, inp[Len(inp)].end_time,
                                "Partial record for seq# "
                                    \o (IF LowBits(inp[h].pdata, 8) = {} THEN "00" ELSE "FF"))>>
              /\ (h = 0) => out' = <<>>
              /\ inst'.sequence = ThisSnum
              /\ inst'.rec_words = BitsVal(LowBits(Shr(ThisPacket.pdata, 8), 8))
              /\ inst'.num_words = 0
              /\ inst'.dvector = <<>>
              /\ inst'.start_time = ThisPacket.start_time ]_vars

\* a head has just cut short a record that had accepted a data word, and
\* opened a record under the other sequence number
C21_Witness ==
    /\ Len(inp) >= 3
    /\ inp[Len(inp)].size = 2
    /\ inp[Len(inp) - 1].size = 4
    /\ inp[Len(inp) - 2].size = 2
    /\ LowBits(inp[Len(inp)].pdata, 8) # LowBits(inp[Len(inp) - 2].pdata, 8)
    /\ Len(out) = 1 /\ out[1].type = "err"
    /\ out[1].start_time = inp[Len(inp) - 2].start_time
    /\ out[1].end_time = inp[Len(inp) - 1].end_time
    /\ inst.num_words = 0 /\ inst.dvector = <<>>

\* the state the parser is in after call i of the run so far
FsmAfter(i) == IF i < Len(fsms) THEN fsms[i + 1] ELSE ctx.fsm

\* the call that consumed the header of the packet that call i continues
HeaderCall(i) == CHOOSE h \in 1..i : fsms[h] = "HDR" /\ \A j \in (h + 1)..i : fsms[j] # "HDR"

\* the most payload bytes a timestamp packet may take
TsLimit(fsm) == IF fsm = "GTS2" THEN 6 ELSE 4

\* C22: after a multi-byte LTS header or a GTS1 header (0x94) the parser
\* consumes at most 4 payload bytes, after a GTS2 header (0xB4) at most 6.
\* The first payload byte with bit 7 clear emits exactly one timestamp
\* (console) frame and ends the packet; the 4th (6th) payload byte with bit 7
\* still set emits exactly one err frame and ends the packet; every other
\* payload byte emits nothing and leaves the packet open.
C22_ContinuationOverrun ==
    \A i \in 1..Len(fsms) :
        fsms[i] \in {"LTS", "GTS1", "GTS2"} =>
            LET h  == HeaderCall(i)
                n  == i - h
                db == InputBytes[i]
                hb == InputBytes[h]
            IN  /\ n <= TsLimit(fsms[i])
                /\ fsms[i] = "LTS" => (hb >= 128 /\ hb % 16 = 0)
                /\ fsms[i] = "GTS1" => hb = GTS1_HEADER
                /\ fsms[i] = "GTS2" => hb = GTS2_HEADER
                /\ \A j \in (h + 1)..(i - 1) : outs[j] = <<>>
                /\ IF db < 128
                   THEN /\ Len(outs[i]) = 1
                        /\ outs[i][1].type = "console"
                        /\ SubSeq(outs[i][1].data.val, 1, 6) \in {"Local ", "Global"}
                        /\ FsmAfter(i) = "HDR"
                   ELSE IF n = TsLimit(fsms[i])
                   THEN /\ Len(outs[i]) = 1
                        /\ outs[i][1].type = "err"
                        /\ FsmAfter(i) = "HDR"
                   ELSE /\ outs[i] = <<>>
                        /\ FsmAfter(i) = fsms[i]

\* a GTS2 packet has just been ended by its 6th payload byte, bit 7 clear,
\* after a local timestamp that overran on its 4th
C22_Witness ==
    /\ Len(fsms) >= 12
    /\ fsms[Len(fsms)] = "GTS2"
    /\ Len(fsms) - HeaderCall(Len(fsms)) = 6
    /\ InputBytes[Len(inp)] < 128
    /\ Len(out) = 1 /\ out[1].type = "console"
    /\ \E i \in 1..Len(fsms) :
          fsms[i] = "LTS" /\ Len(outs[i]) = 1 /\ outs[i][1].type = "err"

RECURSIVE ExtPayload(_, _, _)
\* the bits that payload bytes n..last of the extension packet whose header
\* was consumed by call h contribute: 7 bits each from bit 3 on, and the
\* whole of the fourth byte at bits 24..31
ExtPayload(h, n, last) ==
    IF n > last THEN {}
    ELSE Shl(IntBits(IF n < 4 THEN InputBytes[h + n] % 128 ELSE InputBytes[h + n]),
             3 + (7 * (n - 1)))
         \cup ExtPayload(h, n + 1, last)

\* C23: after an extension header with continuation set the parser consumes
\* between 1 and 4 further bytes; it emits nothing until the first byte with
\* bit 7 clear, or the fourth byte whatever its bit 7, and on that byte
\* exactly one ext frame and never an err frame; the value reported has
\* header bits 6..4 at bits 0..2 and the successive bytes at bits 3..9,
\* 10..16, 17..23 and 24..31, and is below 2^32 (eight hex digits).
C23_ExtAccumulation ==
    \A i \in 1..Len(fsms) :
        fsms[i] = "EXT" =>
            LET h  == HeaderCall(i)
                n  == i - h
                hb == InputBytes[h]
                value == IntBits((hb \div 16) % 8) \cup ExtPayload(h, 1, n)
            IN  /\ n \in 1..4
                /\ hb >= 128 /\ (hb \div 8) % 2 = 1 /\ hb % 4 = 0
                /\ \A j \in (h + 1)..(i - 1) : outs[j] = <<>> /\ InputBytes[j] >= 128
                /\ IF InputBytes[i] < 128 \/ n = 4
                   THEN /\ Len(outs[i]) = 1
                        /\ outs[i][1].type = "ext"
                        /\ value \subseteq 0..31
                        /\ outs[i][1].data.val = " " \o HexFrom(value, 8)
                        /\ FsmAfter(i) = "HDR"
                   ELSE /\ outs[i] = <<>>
                        /\ FsmAfter(i) = "EXT"

\* an extension has just been ended by its fourth byte, bit 7 set: header
\* bits 101, three bytes 0x81 at bits 3, 10 and 17, and 0x81 at bits 24..31
C23_Witness ==
    /\ Len(fsms) >= 5
    /\ fsms[Len(fsms)] = "EXT"
    /\ Len(fsms) - HeaderCall(Len(fsms)) = 4
    /\ InputBytes[Len(inp)] = 129
    /\ Len(out) = 1 /\ out[1].type = "ext"
    /\ out[1].data.val = " 8102040D"

\* the deframer's buffer is one entry short of full: the call being made
\* processes it
Filling == tpiu_ctx # Null /\ tpiu_ctx.bidx = 15 /\ inp' # inp

\* the 16 entries processed by the call being made
Filled == Append(tpiu_ctx.packet,
                 <<inp'[Len(inp')].data.data[1], inp'[Len(inp')].start_time,
                   inp'[Len(inp')].end_time>>)

\* the odd indexes (0-based) of P where a sync-scan begun by 0xFF at an
\* earlier even index meets 0x7F
SyncEnds(P) ==
    {i \in {1, 3, 5, 7, 9, 11, 13} :
        /\ P[i + 1][1] = TPIU_SYNC_7F
        /\ \E e \in 0..(i - 1) : e % 2 = 0 /\ P[e + 1][1] = TPIU_SYNC_FF}

\* the index at which the scan of P is terminated: the first of them
SyncEndIdx(P) == CHOOSE i \in SyncEnds(P) : \A j \in SyncEnds(P) : i <= j

\* the tpiu frames among fs whose text ends in "Sync"
SyncFrames(fs) ==
    {k \in 1..Len(fs) :
        /\ fs[k].type = "tpiu"
        /\ Len(fs[k].data.val) >= 4
        /\ SubSeq(fs[k].data.val, Len(fs[k].data.val) - 3, Len(fs[k].data.val)) = "Sync"}

\* the input events that are not yet part of a processed frame are exactly
\* what the buffer holds, in input order (prefilled entries apart)
BufferIsInputTail(c, events) ==
    c.bidx > 0 =>
        /\ Len(c.packet) = c.bidx
        /\ \A j \in 1..c.bidx :
              \/ c.packet[j] = <<0, None, None>>
              \/ /\ Len(events) - c.bidx + j >= 1
                 /\ LET ev == events[Len(events) - c.bidx + j]
                    IN  c.packet[j] = <<ev.data.data[1], ev.start_time, ev.end_time>>

\* C24: when the processing of a full buffer meets 0x7F at odd index i in a
\* sync-scan begun by 0xFF at an even index, exactly one tpiu Sync frame is
\* emitted, the i+1 entries up to the terminator are discarded, the 15-i
\* entries after it are retained in input order with buffer_index = 15-i,
\* and no retained byte is decoded in that call (no data frame handed on
\* starts at or after the terminator).  The buffer always holds the latest
\* buffer_index input events, so the next frame is the 16 input bytes that
\* follow the terminator.
C24_SyncRealignment ==
    [][ /\ (Filling /\ SyncEnds(Filled) # {}) =>
             LET i == SyncEndIdx(Filled)
             IN  /\ Cardinality(SyncFrames(tout')) = 1
                 /\ tpiu_ctx'.bidx = 15 - i
                 /\ tpiu_ctx'.packet = SubSeq(Filled, i + 2, 16)
                 /\ \A k \in (Len(handed) + 1)..Len(handed') :
                        handed'[k].start_time < Filled[i + 1][2]
        /\ inp' # inp => BufferIsInputTail(tpiu_ctx', inp') ]_vars

\* a frame has just been processed that is made of the 14 bytes retained
\* after a short sync and the 2 bytes that followed them
C24_Witness ==
    /\ Len(inp) = 18
    /\ InputBytes[1] = 255 /\ InputBytes[2] = 127
    /\ Len(touts[16]) = 1 /\ touts[16][1].data.val = "Short Sync"
    /\ tpiu_ctx.bidx = 0
    /\ Len(tpiu_ctx.packet) = 16
    /\ \A j \in 1..16 : tpiu_ctx.packet[j][1] = InputBytes[j + 2]
    /\ tout # <<>>

\* the scan for the end of a sync is on when index k of P is looked at: 0xFF
\* was seen at an earlier even index and no terminator before k
InScan(P, k) ==
    /\ \E e \in 0..(k - 1) : e % 2 = 0 /\ P[e + 1][1] = TPIU_SYNC_FF
    /\ \A i \in SyncEnds(P) : i >= k

\* the indexes 0..14 of P where the scan meets a byte that is neither 0xFF
\* nor the terminator 0x7F at an odd index
MalformedAt(P) ==
    {k \in 0..14 :
        /\ InScan(P, k)
        /\ P[k + 1][1] # TPIU_SYNC_FF
        /\ ~(k % 2 = 1 /\ P[k + 1][1] = TPIU_SYNC_7F)}

\* C25: when the sync-scan within a frame meets a byte other than 0xFF (or
\* the terminating 0x7F at an odd index), the deframer emits an err frame and
\* no tpiu or data payload frame for that 16-byte frame, and buffer_index is
\* 0 after the call.
C25_MalformedSync ==
    [][ (Filling /\ MalformedAt(Filled) # {}) =>
          /\ \E k \in 1..Len(tout') : tout'[k].type = "err"
          /\ \A k \in 1..Len(tout') : tout'[k].type = "err"
          /\ Len(handed') = Len(handed)
          /\ tpiu_ctx'.bidx = 0 ]_vars

\* the positions in bs (frames aligned from the first byte, no sync) of the
\* stream markers of the complete frames: even index, bit 0 set, not 0xFF
MarkerPositions(bs) ==
    {i \in 1..(16 * (Len(bs) \div 16)) :
        /\ (i - 1) % 16 # 15
        /\ ((i - 1) % 16) % 2 = 0
        /\ bs[i] % 2 = 1
        /\ bs[i] # TPIU_SYNC_FF}

\* the id carried by the last of them, 0 (idle) when there is none
LastMarkerId(bs) ==
    IF MarkerPositions(bs) = {} THEN 0
    ELSE bs[CHOOSE i \in MarkerPositions(bs) : \A j \in MarkerPositions(bs) : j <= i] \div 2

\* C26: whenever buffer_index is 0 after a frame has been processed, the
\* active stream is the id carried by the last stream marker of the frames
\* processed so far, whatever the marker's even index and delay flag; and the
\* active stream is always 0 or an id 0..126 that a marker carried.
C26_StreamInvariant ==
    tpiu_ctx # Null =>
        /\ (tpiu_ctx.bidx = 0 /\ Len(inp) >= TPIU_FRAME_LEN)
              => tpiu_ctx.stream_active = LastMarkerId(InputBytes)
        /\ \/ tpiu_ctx.stream_active = 0
           \/ /\ tpiu_ctx.stream_active \in 0..126
              /\ \E i \in MarkerPositions(InputBytes) :
                    InputBytes[i] \div 2 = tpiu_ctx.stream_active

\* buffer_index before the call being made (the context is built, with its
\* prefilled entries, by the first call)
PreBidx == IF tpiu_ctx = Null THEN offset ELSE tpiu_ctx.bidx

\* the entries of the frame in progress that the buffer holds before the call
HeldBefore == IF PreBidx = 0 THEN 0
              ELSE IF tpiu_ctx = Null THEN offset ELSE Len(tpiu_ctx.packet)

\* the entry the call being made appends
NewEntry == <<inp'[Len(inp')].data.data[1], inp'[Len(inp')].start_time,
              inp'[Len(inp')].end_time>>

\* C27: after every process_byte call buffer_index is within 0..15 and the
\* buffer holds at most 16 entries; the buffer is processed (buffer_index
\* restarts, frames may be emitted) exactly in the call that appends its 16th
\* entry; and nothing of a processed frame is left in the buffer when a byte
\* of the following frame is stored: a byte stored at index 0 is alone in the
\* buffer, and the buffer holds buffer_index entries whenever that is not 0.
C27_BufferInvariant ==
    [][ inp' # inp =>
          /\ tpiu_ctx'.bidx \in 0..15
          /\ Len(tpiu_ctx'.packet) <= 16
          /\ (tpiu_ctx'.bidx # PreBidx + 1) <=> (HeldBefore + 1 = 16)
          /\ (HeldBefore + 1 # 16) => tout' = <<>>
          /\ (PreBidx = 0) => tpiu_ctx'.packet = <<NewEntry>>
          /\ (tpiu_ctx'.bidx # 0) => Len(tpiu_ctx'.packet) = tpiu_ctx'.bidx ]_vars

\* with offset 2 the 14th byte completed the first frame, in which a sync
\* with a wrong byte in it was terminated at index 7; the 8 entries after the
\* terminator were kept and one more byte has been stored since
C27_Witness ==
    /\ offset = 2
    /\ Len(inp) = 15
    /\ \A n \in 1..13 : touts[n] = <<>>
    /\ \E k \in 1..Len(touts[14]) : touts[14][k].type = "err"
    /\ \E k \in 1..Len(touts[14]) : touts[14][k].data.val = "BAD Sync"
    /\ tpiu_ctx.bidx = 9
    /\ Len(tpiu_ctx.packet) = 9

\* the state of the parser after k calls of the run so far (HDR at first)
FsmAt(k) == IF k = 0 THEN "HDR" ELSE FsmAfter(k)

\* the most bytes a state may need to get back to HDR
ReturnBound(fsm) == IF fsm = "HDR" THEN 0 ELSE IF fsm = "GTS2" THEN 6 ELSE 4

\* C28: from every state the parser reaches, whatever bytes follow, fsm is
\* HDR again after at most 6 further bytes: at most 4 from ITM1..ITM4,
\* DWT1..DWT4, EXT, LTS and GTS1, at most 6 from GTS2.  In terms of a run:
\* whenever that many bytes have followed a state, HDR is among the states
\* passed through.
C28_BoundedReturnToHdr ==
    \A k \in 0..Len(fsms) :
        (k + ReturnBound(FsmAt(k)) <= Len(fsms)) =>
            \E j \in k..(k + ReturnBound(FsmAt(k))) : FsmAt(j) = "HDR"

\* a 4-byte DWT packet has just been completed by its fourth payload byte,
\* after a GTS2 packet that was given up on its sixth
C28_Witness ==
    /\ Len(fsms) >= 12
    /\ ctx.fsm = "HDR"
    /\ fsms[Len(fsms)] = "DWT4"
    /\ fsms[Len(fsms) - 3] = "DWT1"
    /\ \E i \in 1..Len(fsms) :
          fsms[i] = "GTS2" /\ Len(outs[i]) = 1 /\ outs[i][1].type = "err"

\* the data frames among the frames handed to the stacked parser so far
HandedData == SelectSeq(handed, LAMBDA f : f.type = "data")

\* C29: in Saleae passthrough style the data frames handed to the stacked
\* parser carry the payload bytes of the selected stream in input order, each
\* input byte at most once: their bytes are the bytes the marker rule gives
\* the selected stream, and their start times are strictly increasing.
C29_PassthroughOrder ==
    /\ \A i, j \in 1..Len(HandedData) :
          i < j => HandedData[i].start_time < HandedData[j].start_time
    /\ Len(inp) % 16 = 0 =>
          [i \in 1..Len(HandedData) |-> HandedData[i].data.data[1]]
              = OfStream(Attribution(InputBytes, 1, 0, None), TPIU_stream)

\* C30: in every reachable state of the reassembler, after any sequence of
\* head, data, tail and unexpected-size packets (data packets received while
\* idle included), num_words equals the length of dvector, so the tail's loop
\* over range(num_words) never indexes past the end of dvector.
C30_WordCountConsistency ==
    /\ inst.num_words = Len(inst.dvector)
    /\ \A idx \in 0..(inst.num_words - 1) : (idx + 1) \in DOMAIN inst.dvector

\* two data words have been received while idle, after a tail that closed a
\* record of one word: three words are held and counted
C30_Witness ==
    /\ Len(inp) >= 5
    /\ inp[Len(inp)].size = 4 /\ inp[Len(inp) - 1].size = 4
    /\ inp[Len(inp) - 2].size = 1
    /\ inp[Len(inp) - 3].size = 4
    /\ inp[Len(inp) - 4].size = 2
    /\ inst.sequence = 256
    /\ inst.num_words = 3
    /\ Len(inst.dvector) = 3

=============================================================================
